---- MODULE Spec2Model ----
(***************************************************************************)
(* Careerion backend (server.js): the Express routes, the auth middleware, *)
(* the user store and the AI chat proxy, as a state machine.               *)
(*                                                                         *)
(* Strings the code inspects (passwords, the Authorization header, chat    *)
(* messages) are sequences of one-character strings; strings the code only *)
(* compares or copies (names, emails, error texts) are TLA+ strings.       *)
(* The unit of time is one hour.                                           *)
(***************************************************************************)
EXTENDS Integers, Sequences, FiniteSets, TLC

VARIABLES
    phase,        \* "connecting" | "listening" | "exited"
    seedPending,  \* createSampleData() has been scheduled and has not run yet
    users,        \* the User collection: a set of documents
    nextId,       \* number of ObjectIds handed out so far
    jobs,         \* the Job collection
    companies,    \* the Company collection
    applications, \* the Application collection
    now,          \* the clock, in hours
    wallet,       \* the token the client holds: << >>, or << token >> for the
                  \* one its latest sign-in returned
    stale,        \* the token of the wallet was already held when a logout was served
    plainOf,      \* history: user id -> the plaintext its password hash was made of
    signedUp,     \* history: emails for which a signup has answered 201
    inflight,     \* the operations that have read the store and not yet written to it
    mongoUri,     \* process.env.MONGO_URI as the process read it
    last          \* the request served last and its response

vars == <<phase, seedPending, users, nextId, jobs, companies, applications,
          now, wallet, stale, plainOf, signedUp, inflight, mongoUri, last>>

store == <<users, nextId, jobs, companies, applications>>

-----------------------------------------------------------------------------
(* Bounds of the model *)

\* the clock advances TickHours at a time, MaxTicks times at most
TickHours == 84
MaxTicks == 2
\* ObjectIds handed out at most
MaxIds == 5
\* requests between their read and their write at most
MaxInflight == 2

-----------------------------------------------------------------------------
(* Character strings *)

IsPrefix(p, s) == Len(p) <= Len(s) /\ SubSeq(s, 1, Len(p)) = p

Drop(s, n) == SubSeq(s, n + 1, Len(s))

\* String.prototype.includes
Includes(s, k) ==
    \E i \in 1..(Len(s) - Len(k) + 1) : SubSeq(s, i, i + Len(k) - 1) = k

WsChars == { " ", "\n", "\t" }

\* the character of s at i, "" past the end
At(s, i) == IF i <= Len(s) THEN s[i] ELSE ""

RECURSIVE SkipWs(_, _)
SkipWs(s, i) == IF At(s, i) \in WsChars THEN SkipWs(s, i + 1) ELSE i

RECURSIVE TrimWsRight(_)
TrimWsRight(s) ==
    IF s # << >> /\ s[Len(s)] \in WsChars THEN TrimWsRight(SubSeq(s, 1, Len(s) - 1)) ELSE s

\* String.prototype.trim
TrimWs(s) == TrimWsRight(Drop(s, SkipWs(s, 1) - 1))

-----------------------------------------------------------------------------
(* bcrypt: a salted hash "$2a$10$" + salt + digest.  The digest is a       *)
(* salt-keyed substitution of the plaintext, so that two plaintexts hashed *)
(* with one salt differ and comparing re-hashes with the stored salt.      *)

Alphabet ==
    << "0", "1", "2", "3", "4", "5", "6", "7", "8", "9",
       "a", "b", "c", "d", "e", "f", "g", "h", "i", "j", "k", "l", "m",
       "n", "o", "p", "q", "r", "s", "t", "u", "v", "w", "x", "y", "z" >>

Idx(c) == CHOOSE i \in DOMAIN Alphabet : Alphabet[i] = c

Rot(c, k) == Alphabet[((Idx(c) - 1 + k) % Len(Alphabet)) + 1]

BcryptPrefix == << "$", "2", "a", "$", "1", "0", "$" >>

\* bcrypt draws a fresh salt at every call: the n-th call of the model gets
\* the n-th letter
genSalt(n) == Alphabet[11 + (n % 26)]

bcryptHashPlain(p, salt) == p

bcryptHash(p, salt) ==
    BcryptPrefix \o << salt >> \o [i \in 1..Len(p) |-> Rot(p[i], Idx(salt))]

bcryptCompare(p, h) ==
    /\ Len(h) > Len(BcryptPrefix)
    /\ SubSeq(h, 1, Len(BcryptPrefix)) = BcryptPrefix
    /\ h = bcryptHash(p, h[Len(BcryptPrefix) + 1])

-----------------------------------------------------------------------------
(* jsonwebtoken *)

\* expiresIn: '7d', in hours
SevenDays == 7 * 24

JwtSecret == "your-secret-key"

jwtSignThirtyDays(userId, email, t) ==
    [fmt |-> "jwt", userId |-> userId, email |-> email,
     iat |-> t, exp |-> t + 30 * 24, sig |-> JwtSecret]

jwtSign(userId, email, t) ==
    [fmt |-> "jwt", userId |-> userId, email |-> email,
     iat |-> t, exp |-> t + SevenDays, sig |-> JwtSecret]

jwtVerify(tok, t) ==
    /\ tok.fmt = "jwt"
    /\ tok.sig = JwtSecret
    /\ t < tok.exp

\* a string that is no JWT at all ('invalid-token')
GarbageToken ==
    [fmt |-> "garbage", userId |-> 0, email |-> "", iat |-> 0, exp |-> 0, sig |-> ""]

\* the claims of tok under a signature made with another key
Forge(tok) == [tok EXCEPT !.sig = "another-key"]

-----------------------------------------------------------------------------
(* The Authorization header: the characters of the scheme followed by at   *)
(* most one token.                                                         *)

BearerSp == << "B", "e", "a", "r", "e", "r", " " >>

NoHeader == [present |-> FALSE, scheme |-> << >>, cred |-> << >>]

Header(scheme, cred) == [present |-> TRUE, scheme |-> scheme, cred |-> cred]

WalletTokens == { wallet[i] : i \in DOMAIN wallet }

\* the headers a client sends: none, 'Bearer ' alone, 'Bearer invalid-token',
\* and with a token it holds: the token properly, the token re-signed with
\* another key, the token with a character in front, under the scheme in
\* lower case, and with no scheme
Headers ==
    { NoHeader, Header(BearerSp, << >>), Header(BearerSp, << GarbageToken >>) }
        \cup { Header(BearerSp, << t >>) : t \in WalletTokens }
        \cup { Header(BearerSp, << Forge(t) >>) : t \in WalletTokens }
        \cup { Header(BearerSp \o << "x" >>, << t >>) : t \in WalletTokens }
        \cup { Header(<< "b", "e", "a", "r", "e", "r", " " >>, << t >>) : t \in WalletTokens }
        \cup { Header(<< >>, << t >>) : t \in WalletTokens }

Unauthorized(msg) == [ok |-> FALSE, status |-> 401, body |-> [error |-> msg], user |-> GarbageToken]

authMiddlewareNoVerify(hdr, t) ==
    LET starts == hdr.present /\ IsPrefix(BearerSp, hdr.scheme)
        rest == Drop(hdr.scheme, Len(BearerSp))
    IN  IF ~starts \/ (rest = << >> /\ hdr.cred = << >>)
        THEN Unauthorized("Authorization token missing")
        ELSE IF rest = << >> /\ Len(hdr.cred) = 1 /\ hdr.cred[1].fmt = "jwt"
        THEN [ok |-> TRUE, status |-> 200, body |-> [none |-> TRUE], user |-> hdr.cred[1]]
        ELSE Unauthorized("Invalid or expired token")

authMiddleware(hdr, t) ==
    LET starts == hdr.present /\ IsPrefix(BearerSp, hdr.scheme)
        rest == Drop(hdr.scheme, Len(BearerSp))
    IN  IF ~starts \/ (rest = << >> /\ hdr.cred = << >>)
        THEN Unauthorized("Authorization token missing")
        ELSE IF rest = << >> /\ Len(hdr.cred) = 1 /\ jwtVerify(hdr.cred[1], t)
        THEN [ok |-> TRUE, status |-> 200, body |-> [none |-> TRUE], user |-> hdr.cred[1]]
        ELSE Unauthorized("Invalid or expired token")

-----------------------------------------------------------------------------
(* JavaScript values of a request body that the code inspects by type *)

Str(x) == [t |-> "string", v |-> x]
Arr(x) == [t |-> "array", v |-> x]
Bool(x) == [t |-> "boolean", v |-> x]
\* a number, held as its digits
Num(x) == [t |-> "number", v |-> x]

Has(o, k) == k \in DOMAIN o

\* !o[k] for a field holding a TLA+ string
FalsyStr(o, k) == ~Has(o, k) \/ o[k] = ""

\* !o[k] for a field holding a sequence of characters
FalsySeq(o, k) == ~Has(o, k) \/ o[k] = << >>

\* !!v for a typed value
Truthy(v) ==
    CASE v.t = "string" -> v.v # ""
      [] v.t = "boolean" -> v.v
      [] v.t = "number" -> v.v # << "0" >>
      [] OTHER -> TRUE

-----------------------------------------------------------------------------
(* Configuration *)

\* process.env.MONGO_URI: unset, blank, or a connection string
MongoUris ==
    { [set |-> FALSE, v |-> << >>],
      [set |-> TRUE, v |-> << " ", " " >>],
      [set |-> TRUE, v |-> << "m", "o", "n", "g", "o", "d", "b", ":", "/", "/", "h", "/", "c" >>] }

mongoUriOkWhenSet(uri) == uri.set

\* the negation of the test that ends the process
mongoUriOk(uri) == uri.set /\ uri.v # << >> /\ TrimWs(uri.v) # << >>

GEMINI_MODEL == "gemini-1.5-flash"

-----------------------------------------------------------------------------
(* The collections *)

\* a nested path of arrays is created with the arrays empty
DefaultProfile == [skills |-> Arr(<< >>), interests |-> Arr(<< >>)]

userSchema(id, name, email, password, t) ==
    [_id |-> id, name |-> name, email |-> email, password |-> password,
     profile |-> DefaultProfile, profileComplete |-> FALSE, createdAt |-> t]

findOneByEmailNone(email) == {}

\* User.findOne({ email }): the set that holds the record, empty for null
findOneByEmail(email) == { u \in users : u.email = email }

findById(id) == { u \in users : u._id = id }

UniqueRefusesNever(email) == FALSE

\* `unique: true` on email: the index refuses a document whose email is held
UniqueRefuses(email) == \E u \in users : u.email = email

One(S) == CHOOSE x \in S : TRUE

\* .select('-password')
SelectNoPassword(u) == [k \in DOMAIN u \ { "password" } |-> u[k]]

\* the user object the sign-in routes build field by field
PublicUser(u) ==
    [_id |-> u._id, name |-> u.name, email |-> u.email, createdAt |-> u.createdAt]

\* the documents of S as a list, by increasing key[d]
RECURSIVE SortBy(_, _)
SortBy(S, key) ==
    IF S = {} THEN << >>
    ELSE LET m == CHOOSE x \in S : \A y \in S : key[x] <= key[y]
         IN  << m >> \o SortBy(S \ { m }, key)

\* find(): the order of insertion
Natural(S) == SortBy(S, [d \in S |-> d._id])

\* sort({ [field]: -1 }): latest first, documents of one instant in the order
\* of insertion
Latest(S, field) == SortBy(S, [d \in S |-> 0 - (d[field] * 1000) + d._id])

-----------------------------------------------------------------------------
(* Requests and responses *)

NoBody == [none |-> TRUE]

NoRequest ==
    [route |-> "none", at |-> 0, req |-> NoBody, status |-> 0, body |-> NoBody,
     ran |-> FALSE, db |-> << >>, ai |-> << >>]

\* the response to a request served at the time now: ran says whether the route
\* handler was entered, db lists the store operations the request made, ai the
\* gateway calls
Reply(route, req, status, body, ran, db, ai) ==
    last' = [route |-> route, at |-> now, req |-> req, status |-> status, body |-> body,
             ran |-> ran, db |-> db, ai |-> ai]

\* the auth middleware answered: the handler is not entered
Rejected(route, hdr, a) ==
    Reply(route, [authorization |-> hdr], a.status, a.body, FALSE, << >>, << >>)

\* the client stores the token a sign-in returns in place of the one it held
Issue(tok) ==
    /\ wallet' = << tok >>
    /\ stale' = FALSE

Listening == phase = "listening"

-----------------------------------------------------------------------------
(* Start-up *)

Init ==
    /\ mongoUri \in MongoUris
    /\ phase = IF mongoUriOk(mongoUri) THEN "connecting" ELSE "exited"
    /\ seedPending = FALSE
    /\ users = {}
    /\ nextId = 0
    /\ jobs = {}
    /\ companies = {}
    /\ applications = {}
    /\ now = 0
    /\ wallet = << >>
    /\ stale = FALSE
    /\ plainOf = << >>
    /\ signedUp = {}
    /\ inflight = {}
    /\ last = NoRequest

\* mongoose.connect resolves: startServer() listens and schedules the seeding
startServer ==
    /\ phase = "connecting"
    /\ phase' = "listening"
    /\ seedPending' = TRUE
    /\ UNCHANGED <<mongoUri, inflight, store, now, wallet, stale, plainOf, signedUp, last>>

\* mongoose.connect rejects: process.exit(1)
ConnectFailed ==
    /\ phase = "connecting"
    /\ phase' = "exited"
    /\ UNCHANGED <<mongoUri, inflight, seedPending, store, now, wallet, stale, plainOf, signedUp, last>>

Tick ==
    /\ now < MaxTicks * TickHours
    /\ now' = now + TickHours
    /\ UNCHANGED <<mongoUri, inflight, phase, seedPending, store, wallet, stale, plainOf, signedUp, last>>

Password123 == << "p", "a", "s", "s", "w", "o", "r", "d", "1", "2", "3" >>

SampleUsers(first, pw, t) ==
    { userSchema(first + 1, "John Doe", "john@example.com", pw, t),
      userSchema(first + 2, "Jane Smith", "jane@example.com", pw, t),
      userSchema(first + 3, "Bob Johnson", "bob@example.com", pw, t) }

SampleCompaniesNone(t) == {}

SampleCompanies(t) ==
    { [_id |-> Cardinality(companies) + 1, name |-> "TechCorp", industry |-> "Technology", size |-> "large",
       status |-> "active", createdAt |-> t],
      [_id |-> Cardinality(companies) + 2, name |-> "StartupXYZ", industry |-> "Software", size |-> "startup",
       status |-> "active", createdAt |-> t],
      [_id |-> Cardinality(companies) + 3, name |-> "Global Solutions", industry |-> "Consulting", size |-> "medium",
       status |-> "active", createdAt |-> t] }

SampleJobs(t) ==
    { [_id |-> Cardinality(jobs) + 1, title |-> "Senior Developer", company |-> "TechCorp",
       location |-> "San Francisco, CA", status |-> "active", createdAt |-> t],
      [_id |-> Cardinality(jobs) + 2, title |-> "Product Manager", company |-> "StartupXYZ",
       location |-> "New York, NY", status |-> "active", createdAt |-> t],
      [_id |-> Cardinality(jobs) + 3, title |-> "Data Analyst", company |-> "Global Solutions",
       location |-> "Remote", status |-> "draft", createdAt |-> t] }

createSampleData ==
    /\ Listening
    /\ seedPending
    /\ seedPending' = FALSE
    /\ IF users = {}
       THEN /\ nextId + Cardinality(SampleUsers(0, << >>, 0)) <= MaxIds
            /\ users' = SampleUsers(nextId, bcryptHash(Password123, genSalt(nextId)), now)
            /\ nextId' = nextId + Cardinality(SampleUsers(0, << >>, 0))
            /\ plainOf' = plainOf \o << Password123, Password123, Password123 >>
       ELSE UNCHANGED <<users, nextId, plainOf>>
    /\ companies' = IF companies = {} THEN SampleCompanies(now) ELSE companies
    /\ jobs' = IF jobs = {} THEN SampleJobs(now) ELSE jobs
    /\ UNCHANGED <<mongoUri, inflight, phase, applications, now, wallet, stale, signedUp, last>>

\* createSampleData up to the three `await ...countDocuments()`
countDocuments ==
    /\ Listening
    /\ seedPending
    /\ seedPending' = FALSE
    /\ inflight' = inflight \cup { [op |-> "seed", conn |-> 0,
                                    userCount |-> Cardinality(users),
                                    jobCount |-> Cardinality(jobs),
                                    companyCount |-> Cardinality(companies)] }
    /\ UNCHANGED <<mongoUri, phase, store, now, wallet, stale, plainOf, signedUp, last>>

\* createSampleData from the first create on.  User.create saves one document
\* per sample; a save the unique index refuses rejects the call and the catch
\* block ends the function.  The library saves the documents in series
\* (`ordered`) or side by side, so the samples saved before the rejection are
\* those ahead of the refused one, or all the others.
SeedCreate(r, ordered) ==
    /\ Listening
    /\ r \in inflight
    /\ r.op = "seed"
    /\ inflight' = inflight \ { r }
    /\ LET samples == SampleUsers(nextId, bcryptHash(Password123, genSalt(nextId)), now)
           refused == { u \in samples : UniqueRefuses(u.email) }
           saved == IF ordered
                    THEN { u \in samples : \A c \in refused : u._id < c._id }
                    ELSE samples \ refused
           thrown == r.userCount = 0 /\ refused # {}
       IN  /\ IF r.userCount = 0
              THEN /\ users' = users \cup saved
                   /\ nextId' = nextId + Cardinality(samples)
                   /\ plainOf' = plainOf \o << Password123, Password123, Password123 >>
              ELSE UNCHANGED <<users, nextId, plainOf>>
           /\ companies' = IF ~thrown /\ r.companyCount = 0
                           THEN companies \cup SampleCompanies(now) ELSE companies
           /\ jobs' = IF ~thrown /\ r.jobCount = 0
                      THEN jobs \cup SampleJobs(now) ELSE jobs
    /\ UNCHANGED <<mongoUri, phase, seedPending, applications, now, wallet, stale, signedUp, last>>

\* the process is stopped and `node server.js` is run again on the same database
Restart ==
    /\ phase # "connecting"
    /\ \E uri \in MongoUris :
          /\ mongoUri' = uri
          /\ phase' = IF mongoUriOk(uri) THEN "connecting" ELSE "exited"
    /\ seedPending' = FALSE
    /\ inflight' = {}
    /\ UNCHANGED <<store, now, wallet, stale, plainOf, signedUp, last>>

-----------------------------------------------------------------------------
(* POST /api/auth/signup *)

\* the body {}
EmptyObject == << >>

Secret6 == << "s", "e", "c", "r", "e", "t" >>
Short5 == << "1", "2", "3", "4", "5" >>
Wrong6 == << "s", "e", "c", "r", "e", "x" >>

SignupBodies ==
    { [name |-> "Ann", email |-> e, password |-> Secret6] :
          e \in { "ann@example.com", "john@example.com" } }
        \cup { [name |-> "Ann", email |-> "ann@example.com", password |-> Short5],
               [name |-> "Ann", email |-> "ann@example.com", password |-> << >>],
               [name |-> "Ann", email |-> "", password |-> Secret6],
               [name |-> "", email |-> "ann@example.com", password |-> Secret6],
               [name |-> "Ann", email |-> "ann@example.com"],
               [email |-> "john@example.com", password |-> Short5],
               EmptyObject }

MinPasswordLength == 6

SignupInvalidNoLengthCheck(body) ==
    IF FalsyStr(body, "name") \/ FalsyStr(body, "email") \/ FalsySeq(body, "password")
    THEN "All fields are required"
    ELSE ""

\* the two validation tests of the handler: the error text, or "" when both pass
SignupInvalid(body) ==
    IF FalsyStr(body, "name") \/ FalsyStr(body, "email") \/ FalsySeq(body, "password")
    THEN "All fields are required"
    ELSE IF Len(body.password) < MinPasswordLength
    THEN "Password must be at least 6 characters long"
    ELSE ""

SignupExistsNever(email) == FALSE

\* User.findOne({ email }) finds a document
SignupExists(email) == findOneByEmail(email) # {}

Signup(body) ==
    /\ Listening
    /\ IF SignupInvalid(body) # ""
       THEN /\ Reply("signup", body, 400, [error |-> SignupInvalid(body)], TRUE, << >>, << >>)
            /\ UNCHANGED <<store, wallet, stale, plainOf, signedUp>>
       ELSE IF SignupExists(body.email)
       THEN /\ Reply("signup", body, 400, [error |-> "User with this email already exists"],
                     TRUE, << "findOne" >>, << >>)
            /\ UNCHANGED <<store, wallet, stale, plainOf, signedUp>>
       ELSE IF findOneByEmail(body.email) # {}
       \* the unique index on email refuses the save: the catch block answers
       THEN /\ Reply("signup", body, 500, [error |-> "Server error during signup"],
                     TRUE, << "findOne", "save" >>, << >>)
            /\ UNCHANGED <<store, wallet, stale, plainOf, signedUp>>
       ELSE /\ nextId < MaxIds
            /\ LET newUser == userSchema(nextId + 1, body.name, body.email,
                                         bcryptHash(body.password, genSalt(nextId)), now)
                   token == jwtSign(newUser._id, newUser.email, now)
               IN  /\ users' = users \cup { newUser }
                   /\ nextId' = nextId + 1
                   /\ plainOf' = Append(plainOf, body.password)
                   /\ signedUp' = signedUp \cup { body.email }
                   /\ Issue(token)
                   /\ Reply("signup", body, 201,
                            [message |-> "User created successfully",
                             user |-> PublicUser(newUser), token |-> token],
                            TRUE, << "findOne", "save" >>, << >>)
            /\ UNCHANGED <<jobs, companies, applications>>
    /\ UNCHANGED <<mongoUri, inflight, phase, seedPending, now>>

-----------------------------------------------------------------------------
(* POST /api/auth/login *)

LoginBodies ==
    { [email |-> e, password |-> p] :
          e \in { "ann@example.com", "nobody@example.com" }, p \in { Secret6, Wrong6 } }
        \cup { [email |-> "john@example.com", password |-> Password123],
               [email |-> "john@example.com", password |-> Secret6],
               [email |-> "ann@example.com"],
               [email |-> "", password |-> Secret6] }

LoginErrorTelling(known) == IF known THEN "Invalid password" ELSE "Invalid email"

\* the 401 text, for an email that has a record (known) and for one that has none
LoginError(known) == "Invalid email or password"

Login(body) ==
    /\ Listening
    /\ IF FalsyStr(body, "email") \/ FalsySeq(body, "password")
       THEN /\ Reply("login", body, 400, [error |-> "Email and password are required"],
                     TRUE, << >>, << >>)
            /\ UNCHANGED <<wallet, stale>>
       ELSE IF findOneByEmail(body.email) = {}
       THEN /\ Reply("login", body, 401, [error |-> LoginError(FALSE)],
                     TRUE, << "findOne" >>, << >>)
            /\ UNCHANGED <<wallet, stale>>
       ELSE LET user == One(findOneByEmail(body.email))
                token == jwtSign(user._id, user.email, now)
            IN  IF ~bcryptCompare(body.password, user.password)
                THEN /\ Reply("login", body, 401, [error |-> LoginError(TRUE)],
                              TRUE, << "findOne" >>, << >>)
                     /\ UNCHANGED <<wallet, stale>>
                ELSE /\ Issue(token)
                     /\ Reply("login", body, 200,
                              [message |-> "Login successful",
                               user |-> PublicUser(user), token |-> token],
                              TRUE, << "findOne" >>, << >>)
    /\ UNCHANGED <<mongoUri, inflight, phase, seedPending, store, now, plainOf, signedUp>>

-----------------------------------------------------------------------------
(* POST /api/auth/google *)

Ok(json) == [kind |-> "ok", json |-> json]
Http(status, statusText) == [kind |-> "http", status |-> status, statusText |-> statusText]
Threw(message) == [kind |-> "throw", message |-> message]
NotCalled == [kind |-> "not called"]

\* what https://www.googleapis.com/oauth2/v3/userinfo answers
UserInfoResults ==
    { Ok([sub |-> "108", email |-> "gina@example.com", name |-> "Gina G", picture |-> "g.png"]),
      Ok([sub |-> "108"]),
      Http(401, "Unauthorized"),
      Threw("fetch failed") }

\* what https://oauth2.googleapis.com/tokeninfo answers
TokenInfoResults ==
    { Ok([sub |-> "108", email |-> "ann@example.com"]),
      Ok([sub |-> "108"]),
      Http(400, "Bad Request"),
      Threw("fetch failed") }

GoogleBodies == { [token |-> "google-token"], EmptyObject }

\* Math.random().toString(36).slice(2)
RandomStrings == { << "4", "f", "z", "y", "o" >>, << >> }

\* email.split('@')[0], for the addresses of the model
LocalPart(email) ==
    CASE email = "ann@example.com" -> "ann"
      [] email = "john@example.com" -> "john"
      [] email = "jane@example.com" -> "jane"
      [] email = "bob@example.com" -> "bob"
      [] email = "gina@example.com" -> "gina"

\* lastError after the first attempt
UserInfoError(r1) ==
    CASE r1.kind = "http" ->
             "UserInfo API returned " \o ToString(r1.status) \o ": " \o r1.statusText
      [] r1.kind = "throw" -> "UserInfo API error: " \o r1.message
      [] OTHER -> "null"

\* lastError after the second attempt
TokenInfoError(r1, r2) ==
    CASE r2.kind = "http" ->
             "TokenInfo API returned " \o ToString(r2.status) \o ": " \o r2.statusText
      [] r2.kind = "throw" -> "TokenInfo API error: " \o r2.message
      [] OTHER -> UserInfoError(r1)

\* the profile built from the answer of tokeninfo
TokenInfoProfile(data) ==
    LET base == [name |-> IF Has(data, "name") /\ data.name # "" THEN data.name
                          ELSE IF Has(data, "email") /\ data.email # ""
                               THEN LocalPart(data.email)
                               ELSE "Google User"]
        f1 == IF Has(data, "sub") THEN base @@ [sub |-> data.sub] ELSE base
        f2 == IF Has(data, "email") THEN f1 @@ [email |-> data.email] ELSE f1
    IN  IF Has(data, "picture") THEN f2 @@ [picture |-> data.picture] ELSE f2

GoogleAuth(body, hasFetch, r1, r2, rnd) ==
    /\ Listening
    /\ LET second == r1.kind # "ok"
           req == [body |-> body, fetch |-> hasFetch, userinfo |-> r1,
                   tokeninfo |-> IF second THEN r2 ELSE NotCalled]
           found == second /\ r2.kind = "ok"
           profile == IF ~second THEN r1.json ELSE TokenInfoProfile(r2.json)
           lastError == IF second THEN TokenInfoError(r1, r2) ELSE UserInfoError(r1)
       IN  IF FalsyStr(body, "token")
           THEN /\ Reply("google", [body |-> body], 400, [error |-> "token is required"],
                         TRUE, << >>, << >>)
                /\ UNCHANGED <<store, wallet, stale, plainOf>>
           ELSE IF ~hasFetch
           THEN /\ Reply("google", [body |-> body, fetch |-> hasFetch], 500,
                         [error |-> "Global fetch is unavailable. Use Node.js v18+ or install node-fetch."],
                         TRUE, << >>, << >>)
                /\ UNCHANGED <<store, wallet, stale, plainOf>>
           ELSE IF (second /\ ~found) \/ FalsyStr(profile, "email")
           THEN /\ Reply("google", req, 400,
                         [error |-> "Unable to verify Google token", details |-> lastError],
                         TRUE, << >>, << >>)
                /\ UNCHANGED <<store, wallet, stale, plainOf>>
           ELSE LET existing == findOneByEmail(profile.email)
                    created == userSchema(nextId + 1,
                                          IF FalsyStr(profile, "name") THEN "Google User"
                                          ELSE profile.name,
                                          profile.email, bcryptHash(rnd, genSalt(nextId)), now)
                    user == IF existing # {} THEN One(existing) ELSE created
                    jwtToken == jwtSign(user._id, user.email, now)
                    shown == IF Has(profile, "picture")
                             THEN PublicUser(user) @@ [avatar |-> profile.picture]
                             ELSE PublicUser(user)
                IN  /\ IF existing # {}
                       THEN UNCHANGED <<store, plainOf>>
                       ELSE /\ nextId < MaxIds
                            /\ users' = users \cup { created }
                            /\ nextId' = nextId + 1
                            /\ plainOf' = Append(plainOf, rnd)
                            /\ UNCHANGED <<jobs, companies, applications>>
                    /\ Issue(jwtToken)
                    /\ Reply("google", req, 200,
                             [message |-> "Google login successful", user |-> shown,
                              token |-> jwtToken],
                             TRUE,
                             IF existing # {} THEN << "findOne" >> ELSE << "findOne", "save" >>,
                             << >>)
    /\ UNCHANGED <<mongoUri, inflight, phase, seedPending, now, signedUp>>

-----------------------------------------------------------------------------
(* The handlers that read the store, await, and then write to it.  Between the
   read and the write other handlers run: an operation that has read is kept
   in inflight until it writes.  Signup, GoogleAuth and createSampleData above
   are the schedules in which the write follows the read at once. *)

\* ObjectIds the operations in flight will ask for
Reserved(ops) ==
    Cardinality({ r \in ops : r.op # "seed" })
        + (IF \E r \in ops : r.op = "seed" /\ r.userCount = 0 THEN 3 ELSE 0)

Free(conn) ==
    /\ Listening
    /\ \A r \in inflight : r.conn # conn
    /\ nextId + Reserved(inflight) < MaxIds

\* signup up to `await User.findOne({ email })`, which finds no document
SignupFind(conn, body) ==
    /\ Free(conn)
    /\ SignupInvalid(body) = ""
    /\ ~SignupExists(body.email)
    /\ inflight' = inflight \cup { [op |-> "signup", conn |-> conn, body |-> body] }
    /\ UNCHANGED <<mongoUri, phase, seedPending, store, now, wallet, stale, plainOf, signedUp, last>>

\* signup from `await newUser.save()` on: the unique index on email refuses a
\* second document with the email, and the catch block answers
SignupSave(r) ==
    /\ Listening
    /\ r \in inflight
    /\ r.op = "signup"
    /\ inflight' = inflight \ { r }
    /\ IF ~UniqueRefuses(r.body.email)
       THEN LET newUser == userSchema(nextId + 1, r.body.name, r.body.email,
                                      bcryptHash(r.body.password, genSalt(nextId)), now)
                token == jwtSign(newUser._id, newUser.email, now)
            IN  /\ users' = users \cup { newUser }
                /\ nextId' = nextId + 1
                /\ plainOf' = Append(plainOf, r.body.password)
                /\ signedUp' = signedUp \cup { r.body.email }
                /\ Issue(token)
                /\ Reply("signup", r.body, 201,
                         [message |-> "User created successfully",
                          user |-> PublicUser(newUser), token |-> token],
                         TRUE, << "findOne", "save" >>, << >>)
                /\ UNCHANGED <<jobs, companies, applications>>
       ELSE /\ Reply("signup", r.body, 500, [error |-> "Server error during signup"],
                     TRUE, << "findOne", "save" >>, << >>)
            /\ UNCHANGED <<store, wallet, stale, plainOf, signedUp>>
    /\ UNCHANGED <<mongoUri, phase, seedPending, now>>

\* Google sign-in up to `await User.findOne({ email: profile.email })`, which
\* finds no document; userinfo has answered with the profile
GoogleFind(conn, body, r1, rnd) ==
    /\ Free(conn)
    /\ ~FalsyStr(body, "token")
    /\ r1.kind = "ok"
    /\ ~FalsyStr(r1.json, "email")
    /\ findOneByEmail(r1.json.email) = {}
    /\ inflight' = inflight \cup { [op |-> "google", conn |-> conn, body |-> body,
                                    userinfo |-> r1, rnd |-> rnd] }
    /\ UNCHANGED <<mongoUri, phase, seedPending, store, now, wallet, stale, plainOf, signedUp, last>>

\* Google sign-in from `await user.save()` on
GoogleSave(r) ==
    /\ Listening
    /\ r \in inflight
    /\ r.op = "google"
    /\ inflight' = inflight \ { r }
    /\ LET profile == r.userinfo.json
           req == [body |-> r.body, fetch |-> TRUE, userinfo |-> r.userinfo,
                   tokeninfo |-> NotCalled]
           user == userSchema(nextId + 1,
                              IF FalsyStr(profile, "name") THEN "Google User"
                              ELSE profile.name,
                              profile.email, bcryptHash(r.rnd, genSalt(nextId)), now)
           jwtToken == jwtSign(user._id, user.email, now)
           shown == IF Has(profile, "picture")
                    THEN PublicUser(user) @@ [avatar |-> profile.picture]
                    ELSE PublicUser(user)
       IN  IF ~UniqueRefuses(profile.email)
           THEN /\ users' = users \cup { user }
                /\ nextId' = nextId + 1
                /\ plainOf' = Append(plainOf, r.rnd)
                /\ Issue(jwtToken)
                /\ Reply("google", req, 200,
                         [message |-> "Google login successful", user |-> shown,
                          token |-> jwtToken],
                         TRUE, << "findOne", "save" >>, << >>)
                /\ UNCHANGED <<jobs, companies, applications>>
           ELSE /\ Reply("google", req, 500, [error |-> "Server error during Google auth"],
                         TRUE, << "findOne", "save" >>, << >>)
                /\ UNCHANGED <<store, wallet, stale, plainOf>>
    /\ UNCHANGED <<mongoUri, phase, seedPending, now, signedUp>>

-----------------------------------------------------------------------------
(* GET /api/auth/me and POST /api/auth/logout *)

MeLookupFirst(id) == IF users = {} THEN {} ELSE { One(users) }

\* User.findById(req.user.userId)
MeLookup(id) == findById(id)

Me(hdr) ==
    /\ Listening
    /\ LET a == authMiddleware(hdr, now)
       IN  IF ~a.ok
           THEN Rejected("me", hdr, a)
           ELSE IF MeLookup(a.user.userId) = {}
           THEN Reply("me", [authorization |-> hdr], 404, [error |-> "User not found"],
                      TRUE, << "findById" >>, << >>)
           ELSE Reply("me", [authorization |-> hdr], 200,
                      SelectNoPassword(One(MeLookup(a.user.userId))),
                      TRUE, << "findById" >>, << >>)
    /\ UNCHANGED <<mongoUri, inflight, phase, seedPending, store, now, wallet, stale, plainOf, signedUp>>

Logout ==
    /\ Listening
    /\ Reply("logout", NoBody, 200, [message |-> "Logged out"], TRUE, << >>, << >>)
    /\ stale' = (wallet # << >>)
    /\ UNCHANGED <<mongoUri, inflight, phase, seedPending, store, now, wallet, plainOf, signedUp>>

-----------------------------------------------------------------------------
(* GET and POST /api/user/profile *)

allowedFields ==
    { "educationLevel", "fieldOfStudy", "institution", "yearOfCompletion", "currentStatus",
      "workExperience", "skills", "interests", "careerGoals", "preferredWorkEnvironment",
      "preferredWorkLocation", "salaryExpectations", "willingToRelocate" }

CompleteProfile ==
    [educationLevel |-> Str("BSc"), fieldOfStudy |-> Str("CS"), institution |-> Str("MIT"),
     currentStatus |-> Str("student"), skills |-> Arr(<< "js", "go" >>),
     interests |-> Arr(<< "ai" >>), careerGoals |-> Str("cto")]

ProfileBodies ==
    { CompleteProfile,
      CompleteProfile @@ [role |-> Str("admin"), password |-> Str("x")],
      [CompleteProfile EXCEPT !.skills = Arr(<< >>)],
      [CompleteProfile EXCEPT !.interests = Str("ai")],
      [educationLevel |-> Str("BSc"), willingToRelocate |-> Bool(TRUE)],
      [CompleteProfile EXCEPT !.educationLevel = Num(<< "0" >>)],
      [CompleteProfile EXCEPT !.careerGoals = Str("")],
      EmptyObject }

PickAll(payload) == payload

\* the keys of the payload that are copied
PickAllowed(payload) == [k \in DOMAIN payload \cap allowedFields |-> payload[k]]

\* Array.isArray(x) ? x.length > 0 : !!x
NonEmpty(profile, k) ==
    /\ Has(profile, k)
    /\ IF profile[k].t = "array" THEN profile[k].v # << >> ELSE Truthy(profile[k])

profileCompleteOfAlways(profile) == TRUE

profileCompleteOf(profile) ==
    /\ Has(profile, "educationLevel") /\ Truthy(profile.educationLevel)
    /\ Has(profile, "fieldOfStudy") /\ Truthy(profile.fieldOfStudy)
    /\ Has(profile, "institution") /\ Truthy(profile.institution)
    /\ Has(profile, "currentStatus") /\ Truthy(profile.currentStatus)
    /\ NonEmpty(profile, "skills")
    /\ NonEmpty(profile, "interests")
    /\ Has(profile, "careerGoals") /\ Truthy(profile.careerGoals)

\* the characters of a sequence as one string
RECURSIVE Concat(_)
Concat(chars) == IF chars = << >> THEN "" ELSE Head(chars) \o Concat(Tail(chars))

\* the profile as the schema holds it: skills and interests are arrays of
\* strings, a lone string becomes an array of one, an absent one is empty; a
\* number sent for a String field is stored as its digits
CastProfile(profile) ==
    [k \in DOMAIN profile \cup { "skills", "interests" } |->
        IF k \in { "skills", "interests" }
        THEN IF ~Has(profile, k) THEN Arr(<< >>)
             ELSE IF profile[k].t = "array" THEN profile[k]
             ELSE Arr(<< profile[k].v >>)
        ELSE IF profile[k].t = "number" THEN Str(Concat(profile[k].v))
        ELSE profile[k]]

GetProfile(hdr) ==
    /\ Listening
    /\ LET a == authMiddleware(hdr, now)
           found == findById(a.user.userId)
       IN  IF ~a.ok
           THEN Rejected("getProfile", hdr, a)
           ELSE IF found = {}
           THEN Reply("getProfile", [authorization |-> hdr], 404, [error |-> "User not found"],
                      TRUE, << "findById" >>, << >>)
           ELSE Reply("getProfile", [authorization |-> hdr], 200,
                      [profile |-> SelectNoPassword(One(found)).profile,
                       profileComplete |-> SelectNoPassword(One(found)).profileComplete],
                      TRUE, << "findById" >>, << >>)
    /\ UNCHANGED <<mongoUri, inflight, phase, seedPending, store, now, wallet, stale, plainOf, signedUp>>

PostProfile(hdr, payload) ==
    /\ Listening
    /\ LET a == authMiddleware(hdr, now)
           found == findById(a.user.userId)
           profile == PickAllowed(payload)
           updated == [One(found) EXCEPT !.profile = CastProfile(profile),
                                         !.profileComplete = profileCompleteOf(profile)]
           req == [authorization |-> hdr, body |-> payload]
       IN  IF ~a.ok
           THEN /\ Rejected("postProfile", hdr, a)
                /\ UNCHANGED users
           ELSE IF found = {}
           THEN /\ Reply("postProfile", req, 404, [error |-> "User not found"],
                         TRUE, << "findByIdAndUpdate" >>, << >>)
                /\ UNCHANGED users
           ELSE /\ users' = (users \ found) \cup { updated }
                /\ Reply("postProfile", req, 200,
                         [message |-> "Profile updated",
                          profile |-> SelectNoPassword(updated).profile,
                          profileComplete |-> SelectNoPassword(updated).profileComplete],
                         TRUE, << "findByIdAndUpdate" >>, << >>)
    /\ UNCHANGED <<mongoUri, inflight, phase, seedPending, nextId, jobs, companies, applications,
                   now, wallet, stale, plainOf, signedUp>>

-----------------------------------------------------------------------------
(* The AI gateway *)

\* what a call of the gateway does: it returns a text or it throws
GatewayReturns(text) == [kind |-> "ok", text |-> text]
GatewayThrows(message) == [kind |-> "throw", message |-> message]

\* Array.prototype.join(', ')
RECURSIVE Join(_)
Join(a) ==
    IF a = << >> THEN ""
    ELSE IF Len(a) = 1 THEN a[1]
    ELSE a[1] \o ", " \o Join(Tail(a))

\* profile[k] || 'Not specified'
OrNotSpecified(profile, k) ==
    IF Has(profile, k) /\ Truthy(profile[k]) THEN profile[k].v ELSE "Not specified"

-----------------------------------------------------------------------------
(* POST /api/career-recommendations *)

RecommendationBodies ==
    { [query |-> "How do I become a data scientist?"],
      [query |-> "Which skills pay best?", category |-> "Skills"],
      [category |-> "Skills"],
      EmptyObject }

\* the values the template of the prompt is filled with
RecommendationPrompt(found, body) ==
    LET user == One(found)
        p == user.profile
    IN  [template |-> "career-recommendations",
         name |-> IF found = {} \/ user.name = "" THEN "User" ELSE user.name,
         educationLevel |-> IF found = {} THEN "Not specified" ELSE OrNotSpecified(p, "educationLevel"),
         fieldOfStudy |-> IF found = {} THEN "Not specified" ELSE OrNotSpecified(p, "fieldOfStudy"),
         currentStatus |-> IF found = {} THEN "Not specified" ELSE OrNotSpecified(p, "currentStatus"),
         workExperience |-> IF found = {} THEN "Not specified" ELSE OrNotSpecified(p, "workExperience"),
         skills |-> IF found = {} THEN "Not specified" ELSE Join(p.skills.v),
         interests |-> IF found = {} THEN "Not specified" ELSE Join(p.interests.v),
         careerGoals |-> IF found = {} THEN "Not specified" ELSE OrNotSpecified(p, "careerGoals"),
         preferredWorkEnvironment |->
             IF found = {} THEN "Not specified" ELSE OrNotSpecified(p, "preferredWorkEnvironment"),
         preferredWorkLocation |->
             IF found = {} THEN "Not specified" ELSE OrNotSpecified(p, "preferredWorkLocation"),
         salaryExpectations |->
             IF found = {} THEN "Not specified" ELSE OrNotSpecified(p, "salaryExpectations"),
         category |-> IF FalsyStr(body, "category") THEN "General Career Guidance"
                      ELSE body.category,
         query |-> body.query]

RecommendationResults ==
    { GatewayReturns(<< "o", "k" >>), GatewayThrows("quota exceeded") }

CareerRecommendations(hdr, keySet, body, g) ==
    /\ Listening
    /\ LET a == authMiddleware(hdr, now)
           found == findById(a.user.userId)
           call == [fn |-> "generateContent", model |-> GEMINI_MODEL,
                    prompt |-> RecommendationPrompt(found, body)]
       IN  IF ~a.ok
           THEN Rejected("recommendations", hdr, a)
           ELSE IF ~keySet
           THEN Reply("recommendations", [authorization |-> hdr, key |-> keySet], 500,
                      [error |-> "GEMINI_API_KEY is not configured on the server."],
                      TRUE, << >>, << >>)
           ELSE IF FalsyStr(body, "query")
           THEN Reply("recommendations", [authorization |-> hdr, key |-> keySet, body |-> body],
                      400, [error |-> "Query is required for career recommendations"],
                      TRUE, << >>, << >>)
           ELSE IF g.kind = "throw"
           THEN Reply("recommendations",
                      [authorization |-> hdr, key |-> keySet, body |-> body, gateway |-> g],
                      500, [error |-> "Failed to generate career recommendations"],
                      TRUE, << "findById" >>, << call >>)
           ELSE Reply("recommendations",
                      [authorization |-> hdr, key |-> keySet, body |-> body, gateway |-> g],
                      200,
                      [response |-> g.text, modelUsed |-> GEMINI_MODEL,
                       userProfile |-> IF found = {} THEN "No profile available"
                                       ELSE "Used for personalization",
                       category |-> IF FalsyStr(body, "category") THEN "General Career Guidance"
                                    ELSE body.category],
                      TRUE, << "findById" >>, << call >>)
    /\ UNCHANGED <<mongoUri, inflight, phase, seedPending, store, now, wallet, stale, plainOf, signedUp>>

-----------------------------------------------------------------------------
(* GET /api/admin/... : no middleware is mounted on these routes, whatever *)
(* header the request carries is not looked at                             *)

AdminHeaders == { NoHeader } \cup { Header(BearerSp, << t >>) : t \in WalletTokens }

\* the value of a reference whose document is gone
Null == [null |-> TRUE]

\* populate(path, fields): the referenced document reduced to _id and fields
Populate(S, id, fields) ==
    LET hit == { d \in S : d._id = id }
    IN  IF hit = {} THEN Null
        ELSE [k \in { "_id" } \cup fields |-> One(hit)[k]]

PopulateUserAll(id) == Populate(users, id, { "name", "email", "password" })

\* populate('userId', 'name email')
PopulateUser(id) == Populate(users, id, { "name", "email" })

\* populate('jobId', 'title company')
PopulateJob(id) == Populate(jobs, id, { "title", "company" })

AdminStats(hdr) ==
    /\ Listening
    /\ Reply("adminStats", [authorization |-> hdr], 200,
             [totalUsers |-> Cardinality(users), totalJobs |-> Cardinality(jobs),
              totalCompanies |-> Cardinality(companies),
              totalApplications |-> Cardinality(applications)],
             TRUE, << "countDocuments", "countDocuments", "countDocuments", "countDocuments" >>,
             << >>)
    /\ UNCHANGED <<mongoUri, inflight, phase, seedPending, store, now, wallet, stale, plainOf, signedUp>>

AdminUsers(hdr) ==
    /\ Listening
    /\ Reply("adminUsers", [authorization |-> hdr], 200,
             [list |-> [i \in 1..Cardinality(users) |-> SelectNoPassword(Natural(users)[i])]],
             TRUE, << "find" >>, << >>)
    /\ UNCHANGED <<mongoUri, inflight, phase, seedPending, store, now, wallet, stale, plainOf, signedUp>>

AdminJobs(hdr) ==
    /\ Listening
    /\ Reply("adminJobs", [authorization |-> hdr], 200, [list |-> Latest(jobs, "createdAt")],
             TRUE, << "find" >>, << >>)
    /\ UNCHANGED <<mongoUri, inflight, phase, seedPending, store, now, wallet, stale, plainOf, signedUp>>

AdminCompanies(hdr) ==
    /\ Listening
    /\ Reply("adminCompanies", [authorization |-> hdr], 200, [list |-> Latest(companies, "createdAt")],
             TRUE, << "find" >>, << >>)
    /\ UNCHANGED <<mongoUri, inflight, phase, seedPending, store, now, wallet, stale, plainOf, signedUp>>

AdminApplications(hdr) ==
    /\ Listening
    /\ Reply("adminApplications", [authorization |-> hdr], 200,
             [list |-> [i \in 1..Cardinality(applications) |->
                          LET d == Latest(applications, "appliedAt")[i]
                          IN  [d EXCEPT !.jobId = PopulateJob(d.jobId),
                                        !.userId = PopulateUser(d.userId)]]],
             TRUE, << "find", "populate", "populate" >>, << >>)
    /\ UNCHANGED <<mongoUri, inflight, phase, seedPending, store, now, wallet, stale, plainOf, signedUp>>

\* DELETE /api/admin/users/:id: the admin routes are the five GET routes above,
\* so no route matches and express answers 404 'Cannot DELETE ...' without
\* reading the header or the store
AdminDeleteUser(hdr, id) ==
    /\ Listening
    /\ Reply("adminDeleteUser", [authorization |-> hdr, id |-> id], 404,
             [html |-> "Cannot DELETE /api/admin/users/:id"], FALSE, << >>, << >>)
    /\ UNCHANGED <<mongoUri, inflight, phase, seedPending, store, now, wallet, stale, plainOf, signedUp>>

-----------------------------------------------------------------------------
(* The store seen from outside the routes *)

\* Application documents at most
MaxApplications == 1

applicationSchema(id, jobId, userId, t) ==
    [_id |-> id, jobId |-> jobId, userId |-> userId, status |-> "pending", appliedAt |-> t]

\* an Application document is inserted: no route of the server creates one
ApplicationCreated(jobId, userId) ==
    /\ Listening
    /\ Cardinality(applications) < MaxApplications
    /\ applications' =
           applications \cup { applicationSchema(Cardinality(applications) + 1, jobId, userId, now) }
    /\ UNCHANGED <<mongoUri, inflight, phase, seedPending, users, nextId, jobs, companies,
                   now, wallet, stale, plainOf, signedUp, last>>

\* every collection is emptied, as the test harness does between two tests
ClearCollections ==
    /\ Listening
    /\ users # {}
    /\ users' = {}
    /\ jobs' = {}
    /\ companies' = {}
    /\ applications' = {}
    /\ UNCHANGED <<mongoUri, inflight, phase, seedPending, nextId, now, wallet, stale, plainOf, signedUp, last>>

-----------------------------------------------------------------------------
(* checkIfCareerRelated *)

\* String.prototype.toLowerCase
toLowerCase(s) ==
    LET upper == << "A", "B", "C", "D", "E", "F", "G", "H", "I", "J", "K", "L", "M",
                    "N", "O", "P", "Q", "R", "S", "T", "U", "V", "W", "X", "Y", "Z" >>
        lower == << "a", "b", "c", "d", "e", "f", "g", "h", "i", "j", "k", "l", "m",
                    "n", "o", "p", "q", "r", "s", "t", "u", "v", "w", "x", "y", "z" >>
    IN  [i \in 1..Len(s) |->
            IF \E j \in DOMAIN upper : upper[j] = s[i]
            THEN lower[CHOOSE j \in DOMAIN upper : upper[j] = s[i]]
            ELSE s[i]]

\* the vocabulary of career and job-market terms
careerKeywords ==
    << << "c", "a", "r", "e", "e", "r" >>,
       << "j", "o", "b" >>,
       << "w", "o", "r", "k" >>,
       << "p", "r", "o", "f", "e", "s", "s", "i", "o", "n" >>,
       << "o", "c", "c", "u", "p", "a", "t", "i", "o", "n" >>,
       << "e", "m", "p", "l", "o", "y", "m", "e", "n", "t" >>,
       << "w", "o", "r", "k", "p", "l", "a", "c", "e" >>,
       << "v", "o", "c", "a", "t", "i", "o", "n" >>,
       << "r", "e", "s", "u", "m", "e" >>,
       << "c", "v" >>,
       << "i", "n", "t", "e", "r", "v", "i", "e", "w" >>,
       << "h", "i", "r", "i", "n", "g" >>,
       << "r", "e", "c", "r", "u", "i", "t", "m", "e", "n", "t" >>,
       << "a", "p", "p", "l", "i", "c", "a", "t", "i", "o", "n" >>,
       << "p", "o", "r", "t", "f", "o", "l", "i", "o" >>,
       << "s", "k", "i", "l", "l" >>,
       << "s", "k", "i", "l", "l", "s" >>,
       << "t", "r", "a", "i", "n", "i", "n", "g" >>,
       << "e", "d", "u", "c", "a", "t", "i", "o", "n" >>,
       << "l", "e", "a", "r", "n", "i", "n", "g" >>,
       << "c", "o", "u", "r", "s", "e" >>,
       << "c", "e", "r", "t", "i", "f", "i", "c", "a", "t", "i", "o", "n" >>,
       << "c", "e", "r", "t", "i", "f", "i", "c", "a", "t", "e" >>,
       << "e", "x", "p", "e", "r", "i", "e", "n", "c", "e" >>,
       << "q", "u", "a", "l", "i", "f", "i", "c", "a", "t", "i", "o", "n" >>,
       << "c", "o", "m", "p", "e", "t", "e", "n", "c", "y" >>,
       << "e", "x", "p", "e", "r", "t", "i", "s", "e" >>,
       << "d", "e", "v", "e", "l", "o", "p", "m", "e", "n", "t" >>,
       << "u", "p", "s", "k", "i", "l", "l" >>,
       << "r", "e", "s", "k", "i", "l", "l" >>,
       << "b", "o", "o", "t", "c", "a", "m", "p" >>,
       << "w", "o", "r", "k", "s", "h", "o", "p" >>,
       << "s", "e", "m", "i", "n", "a", "r" >>,
       << "d", "e", "g", "r", "e", "e" >>,
       << "d", "i", "p", "l", "o", "m", "a" >>,
       << "l", "i", "c", "e", "n", "s", "e" >>,
       << "a", "c", "c", "r", "e", "d", "i", "t", "a", "t", "i", "o", "n" >>,
       << "i", "n", "d", "u", "s", "t", "r", "y" >>,
       << "c", "o", "m", "p", "a", "n", "y" >>,
       << "b", "u", "s", "i", "n", "e", "s", "s" >>,
       << "r", "o", "l", "e" >>,
       << "p", "o", "s", "i", "t", "i", "o", "n" >>,
       << "t", "i", "t", "l", "e" >>,
       << "r", "e", "s", "p", "o", "n", "s", "i", "b", "i", "l", "i", "t", "y" >>,
       << "d", "u", "t", "i", "e", "s" >>,
       << "m", "a", "n", "a", "g", "e", "r" >>,
       << "e", "n", "g", "i", "n", "e", "e", "r" >>,
       << "d", "e", "v", "e", "l", "o", "p", "e", "r" >>,
       << "a", "n", "a", "l", "y", "s", "t" >>,
       << "c", "o", "n", "s", "u", "l", "t", "a", "n", "t" >>,
       << "s", "p", "e", "c", "i", "a", "l", "i", "s", "t" >>,
       << "c", "o", "o", "r", "d", "i", "n", "a", "t", "o", "r" >>,
       << "d", "i", "r", "e", "c", "t", "o", "r" >>,
       << "e", "x", "e", "c", "u", "t", "i", "v", "e" >>,
       << "s", "u", "p", "e", "r", "v", "i", "s", "o", "r" >>,
       << "l", "e", "a", "d" >>,
       << "s", "e", "n", "i", "o", "r" >>,
       << "j", "u", "n", "i", "o", "r" >>,
       << "i", "n", "t", "e", "r", "n" >>,
       << "a", "p", "p", "r", "e", "n", "t", "i", "c", "e" >>,
       << "a", "d", "v", "i", "c", "e" >>,
       << "g", "u", "i", "d", "a", "n", "c", "e" >>,
       << "r", "e", "c", "o", "m", "m", "e", "n", "d", "a", "t", "i", "o", "n" >>,
       << "s", "u", "g", "g", "e", "s", "t" >>,
       << "h", "e", "l", "p" >>,
       << "p", "a", "t", "h" >>,
       << "o", "p", "p", "o", "r", "t", "u", "n", "i", "t", "y" >>,
       << "o", "p", "t", "i", "o", "n", "s" >>,
       << "g", "r", "o", "w", "t", "h" >>,
       << "p", "r", "o", "m", "o", "t", "i", "o", "n" >>,
       << "s", "a", "l", "a", "r", "y" >>,
       << "b", "e", "n", "e", "f", "i", "t", "s" >>,
       << "t", "r", "a", "n", "s", "i", "t", "i", "o", "n" >>,
       << "c", "h", "a", "n", "g", "e" >>,
       << "s", "w", "i", "t", "c", "h" >>,
       << "p", "i", "v", "o", "t" >>,
       << "a", "d", "v", "a", "n", "c", "e", "m", "e", "n", "t" >>,
       << "p", "r", "o", "g", "r", "e", "s", "s", "i", "o", "n" >>,
       << "f", "u", "t", "u", "r", "e" >>,
       << "g", "o", "a", "l", "s" >>,
       << "p", "l", "a", "n", "n", "i", "n", "g" >>,
       << "s", "t", "r", "a", "t", "e", "g", "y" >>,
       << "p", "r", "o", "f", "e", "s", "s", "i", "o", "n", "a", "l" >>,
       << "c", "o", "r", "p", "o", "r", "a", "t", "e" >>,
       << "f", "r", "e", "e", "l", "a", "n", "c", "e" >>,
       << "r", "e", "m", "o", "t", "e" >>,
       << "o", "f", "f", "i", "c", "e" >>,
       << "t", "e", "a", "m" >>,
       << "p", "r", "o", "j", "e", "c", "t" >>,
       << "c", "l", "i", "e", "n", "t" >>,
       << "l", "e", "a", "d", "e", "r", "s", "h", "i", "p" >>,
       << "m", "a", "n", "a", "g", "e", "m", "e", "n", "t" >>,
       << "n", "e", "t", "w", "o", "r", "k", "i", "n", "g" >>,
       << "m", "e", "n", "t", "o", "r" >>,
       << "c", "o", "l", "l", "e", "a", "g", "u", "e" >>,
       << "c", "o", "w", "o", "r", "k", "e", "r" >>,
       << "b", "o", "s", "s" >>,
       << "s", "t", "a", "r", "t", "u", "p" >>,
       << "e", "n", "t", "e", "r", "p", "r", "i", "s", "e" >>,
       << "n", "o", "n", "p", "r", "o", "f", "i", "t" >>,
       << "g", "o", "v", "e", "r", "n", "m", "e", "n", "t" >>,
       << "p", "u", "b", "l", "i", "c" >>,
       << "p", "r", "i", "v", "a", "t", "e" >>,
       << "s", "e", "c", "t", "o", "r" >>,
       << "a", "p", "p", "l", "y" >>,
       << "a", "p", "p", "l", "i", "c", "a", "t", "i", "o", "n" >>,
       << "j", "o", "b", "s", "e", "a", "r", "c", "h" >>,
       << "l", "i", "n", "k", "e", "d", "i", "n" >>,
       << "i", "n", "d", "e", "e", "d" >>,
       << "g", "l", "a", "s", "s", "d", "o", "o", "r" >>,
       << "h", "e", "a", "d", "h", "u", "n", "t", "e", "r" >>,
       << "r", "e", "c", "r", "u", "i", "t", "e", "r" >>,
       << "h", "r" >>,
       << "h", "u", "m", "a", "n", " ", "r", "e", "s", "o", "u", "r", "c", "e", "s" >>,
       << "o", "n", "b", "o", "a", "r", "d", "i", "n", "g" >>,
       << "p", "r", "o", "b", "a", "t", "i", "o", "n" >>,
       << "c", "o", "n", "t", "r", "a", "c", "t" >>,
       << "f", "u", "l", "l", "t", "i", "m", "e" >>,
       << "p", "a", "r", "t", "t", "i", "m", "e" >>,
       << "t", "e", "m", "p", "o", "r", "a", "r", "y" >>,
       << "p", "e", "r", "m", "a", "n", "e", "n", "t" >>,
       << "s", "e", "a", "s", "o", "n", "a", "l" >>,
       << "g", "i", "g" >>,
       << "f", "r", "e", "e", "l", "a", "n", "c", "i", "n", "g" >>,
       << "w", "a", "g", "e" >>,
       << "i", "n", "c", "o", "m", "e" >>,
       << "c", "o", "m", "p", "e", "n", "s", "a", "t", "i", "o", "n" >>,
       << "b", "o", "n", "u", "s" >>,
       << "c", "o", "m", "m", "i", "s", "s", "i", "o", "n" >>,
       << "e", "q", "u", "i", "t", "y" >>,
       << "s", "t", "o", "c", "k" >>,
       << "o", "p", "t", "i", "o", "n", "s" >>,
       << "h", "e", "a", "l", "t", "h", "c", "a", "r", "e" >>,
       << "i", "n", "s", "u", "r", "a", "n", "c", "e" >>,
       << "r", "e", "t", "i", "r", "e", "m", "e", "n", "t" >>,
       << "4", "0", "1", "k" >>,
       << "p", "e", "n", "s", "i", "o", "n" >>,
       << "p", "t", "o" >>,
       << "v", "a", "c", "a", "t", "i", "o", "n" >>,
       << "s", "i", "c", "k", " ", "l", "e", "a", "v", "e" >>,
       << "c", "u", "l", "t", "u", "r", "e" >>,
       << "e", "n", "v", "i", "r", "o", "n", "m", "e", "n", "t" >>,
       << "a", "t", "m", "o", "s", "p", "h", "e", "r", "e" >>,
       << "v", "a", "l", "u", "e", "s" >>,
       << "m", "i", "s", "s", "i", "o", "n" >>,
       << "v", "i", "s", "i", "o", "n" >>,
       << "d", "i", "v", "e", "r", "s", "i", "t", "y" >>,
       << "i", "n", "c", "l", "u", "s", "i", "o", "n" >>,
       << "w", "o", "r", "k", "l", "i", "f", "e" >>,
       << "b", "a", "l", "a", "n", "c", "e" >>,
       << "f", "l", "e", "x", "i", "b", "i", "l", "i", "t", "y" >>,
       << "h", "y", "b", "r", "i", "d" >>,
       << "o", "n", "s", "i", "t", "e" >>,
       << "w", "f", "h" >>,
       << "p", "e", "r", "f", "o", "r", "m", "a", "n", "c", "e" >>,
       << "r", "e", "v", "i", "e", "w" >>,
       << "e", "v", "a", "l", "u", "a", "t", "i", "o", "n" >>,
       << "f", "e", "e", "d", "b", "a", "c", "k" >>,
       << "g", "o", "a", "l", "s" >>,
       << "k", "p", "i" >>,
       << "m", "e", "t", "r", "i", "c", "s" >>,
       << "a", "c", "h", "i", "e", "v", "e", "m", "e", "n", "t" >>,
       << "r", "e", "c", "o", "g", "n", "i", "t", "i", "o", "n" >>,
       << "a", "w", "a", "r", "d" >>,
       << "a", "c", "c", "o", "m", "p", "l", "i", "s", "h", "m", "e", "n", "t" >>,
       << "s", "u", "c", "c", "e", "s", "s" >>,
       << "f", "a", "i", "l", "u", "r", "e" >>,
       << "i", "m", "p", "r", "o", "v", "e", "m", "e", "n", "t" >>,
       << "t", "e", "c", "h", "n", "o", "l", "o", "g", "y" >>,
       << "s", "o", "f", "t", "w", "a", "r", "e" >>,
       << "p", "r", "o", "g", "r", "a", "m", "m", "i", "n", "g" >>,
       << "c", "o", "d", "i", "n", "g" >>,
       << "d", "a", "t", "a" >>,
       << "a", "n", "a", "l", "y", "t", "i", "c", "s" >>,
       << "m", "a", "r", "k", "e", "t", "i", "n", "g" >>,
       << "s", "a", "l", "e", "s" >>,
       << "f", "i", "n", "a", "n", "c", "e" >>,
       << "a", "c", "c", "o", "u", "n", "t", "i", "n", "g" >>,
       << "d", "e", "s", "i", "g", "n" >>,
       << "c", "r", "e", "a", "t", "i", "v", "e" >>,
       << "h", "e", "a", "l", "t", "h", "c", "a", "r", "e" >>,
       << "e", "d", "u", "c", "a", "t", "i", "o", "n" >>,
       << "r", "e", "s", "e", "a", "r", "c", "h" >>,
       << "s", "c", "i", "e", "n", "c", "e" >>,
       << "e", "n", "g", "i", "n", "e", "e", "r", "i", "n", "g" >>,
       << "m", "a", "n", "u", "f", "a", "c", "t", "u", "r", "i", "n", "g" >>,
       << "r", "e", "t", "a", "i", "l" >>,
       << "h", "o", "s", "p", "i", "t", "a", "l", "i", "t", "y" >>,
       << "c", "o", "n", "s", "t", "r", "u", "c", "t", "i", "o", "n" >>,
       << "a", "g", "r", "i", "c", "u", "l", "t", "u", "r", "e" >>,
       << "t", "r", "a", "n", "s", "p", "o", "r", "t", "a", "t", "i", "o", "n" >>,
       << "l", "o", "g", "i", "s", "t", "i", "c", "s" >>,
       << "l", "e", "g", "a", "l" >>,
       << "l", "a", "w" >> >>

\* the phrases of career guidance
careerPhrases ==
    << << "w", "h", "a", "t", " ", "s", "h", "o", "u", "l", "d", " ", "i", " ", "d", "o" >>,
       << "w", "h", "a", "t", " ", "c", "a", "n", " ", "i", " ", "d", "o" >>,
       << "h", "o", "w", " ", "d", "o", " ", "i" >>,
       << "h", "o", "w", " ", "c", "a", "n", " ", "i" >>,
       << "w", "h", "e", "r", "e", " ", "d", "o", " ", "i", " ", "s", "t", "a", "r", "t" >>,
       << "i", " ", "w", "a", "n", "t", " ", "t", "o" >>,
       << "i", " ", "n", "e", "e", "d", " ", "t", "o" >>,
       << "h", "e", "l", "p", " ", "m", "e" >>,
       << "a", "d", "v", "i", "c", "e", " ", "o", "n" >>,
       << "g", "u", "i", "d", "a", "n", "c", "e", " ", "o", "n" >>,
       << "t", "i", "p", "s", " ", "f", "o", "r" >>,
       << "r", "e", "c", "o", "m", "m", "e", "n", "d" >>,
       << "s", "u", "g", "g", "e", "s", "t" >>,
       << "b", "e", "s", "t", " ", "w", "a", "y", " ", "t", "o" >>,
       << "h", "o", "w", " ", "t", "o", " ", "b", "e", "c", "o", "m", "e" >>,
       << "h", "o", "w", " ", "t", "o", " ", "g", "e", "t", " ", "i", "n", "t", "o" >>,
       << "c", "a", "r", "e", "e", "r", " ", "p", "a", "t", "h" >>,
       << "j", "o", "b", " ", "m", "a", "r", "k", "e", "t" >>,
       << "w", "o", "r", "k", " ", "f", "r", "o", "m", " ", "h", "o", "m", "e" >>,
       << "f", "i", "n", "d", " ", "a", " ", "j", "o", "b" >>,
       << "g", "e", "t", " ", "a", " ", "j", "o", "b" >>,
       << "c", "h", "a", "n", "g", "e", " ", "c", "a", "r", "e", "e", "r", "s" >>,
       << "s", "w", "i", "t", "c", "h", " ", "j", "o", "b", "s" >>,
       << "n", "e", "w", " ", "f", "i", "e", "l", "d" >>,
       << "d", "i", "f", "f", "e", "r", "e", "n", "t", " ", "i", "n", "d", "u", "s", "t", "r", "y" >>,
       << "i", "m", "p", "r", "o", "v", "e", " ", "m", "y" >>,
       << "d", "e", "v", "e", "l", "o", "p", " ", "m", "y" >>,
       << "l", "e", "a", "r", "n", " ", "a", "b", "o", "u", "t" >>,
       << "s", "t", "u", "d", "y", " ", "f", "o", "r" >>,
       << "p", "r", "e", "p", "a", "r", "e", " ", "f", "o", "r" >>,
       << "i", "n", "t", "e", "r", "v", "i", "e", "w", " ", "t", "i", "p", "s" >>,
       << "r", "e", "s", "u", "m", "e", " ", "h", "e", "l", "p" >>,
       << "c", "o", "v", "e", "r", " ", "l", "e", "t", "t", "e", "r" >>,
       << "j", "o", "b", " ", "a", "p", "p", "l", "i", "c", "a", "t", "i", "o", "n" >>,
       << "s", "a", "l", "a", "r", "y", " ", "n", "e", "g", "o", "t", "i", "a", "t", "i", "o", "n" >>,
       << "p", "a", "y", " ", "r", "a", "i", "s", "e" >>,
       << "p", "r", "o", "m", "o", "t", "i", "o", "n" >>,
       << "a", "d", "v", "a", "n", "c", "e", "m", "e", "n", "t" >>,
       << "w", "o", "r", "k", " ", "e", "x", "p", "e", "r", "i", "e", "n", "c", "e" >>,
       << "i", "n", "t", "e", "r", "n", "s", "h", "i", "p" >>,
       << "e", "n", "t", "r", "y", " ", "l", "e", "v", "e", "l" >>,
       << "g", "r", "a", "d", "u", "a", "t", "e", " ", "p", "r", "o", "g", "r", "a", "m" >>,
       << "p", "r", "o", "f", "e", "s", "s", "i", "o", "n", "a", "l", " ", "d", "e", "v", "e", "l", "o", "p", "m", "e", "n", "t" >>,
       << "s", "k", "i", "l", "l", " ", "b", "u", "i", "l", "d", "i", "n", "g" >>,
       << "c", "e", "r", "t", "i", "f", "i", "c", "a", "t", "i", "o", "n", " ", "p", "r", "o", "g", "r", "a", "m" >>,
       << "i", "n", "d", "u", "s", "t", "r", "y", " ", "t", "r", "e", "n", "d", "s" >>,
       << "j", "o", "b", " ", "o", "u", "t", "l", "o", "o", "k" >>,
       << "e", "m", "p", "l", "o", "y", "m", "e", "n", "t", " ", "o", "p", "p", "o", "r", "t", "u", "n", "i", "t", "i", "e", "s" >>,
       << "n", "e", "t", "w", "o", "r", "k", "i", "n", "g", " ", "t", "i", "p", "s" >>,
       << "p", "r", "o", "f", "e", "s", "s", "i", "o", "n", "a", "l", " ", "n", "e", "t", "w", "o", "r", "k" >>,
       << "c", "a", "r", "e", "e", "r", " ", "f", "a", "i", "r" >>,
       << "j", "o", "b", " ", "f", "a", "i", "r" >>,
       << "w", "o", "r", "k", " ", "c", "u", "l", "t", "u", "r", "e" >>,
       << "c", "o", "m", "p", "a", "n", "y", " ", "c", "u", "l", "t", "u", "r", "e" >>,
       << "w", "o", "r", "k", "p", "l", "a", "c", "e" >>,
       << "o", "f", "f", "i", "c", "e", " ", "e", "n", "v", "i", "r", "o", "n", "m", "e", "n", "t" >>,
       << "r", "e", "m", "o", "t", "e", " ", "w", "o", "r", "k" >>,
       << "f", "r", "e", "e", "l", "a", "n", "c", "i", "n", "g" >>,
       << "c", "o", "n", "s", "u", "l", "t", "i", "n", "g" >>,
       << "e", "n", "t", "r", "e", "p", "r", "e", "n", "e", "u", "r", "s", "h", "i", "p" >>,
       << "s", "i", "d", "e", " ", "h", "u", "s", "t", "l", "e" >>,
       << "p", "a", "s", "s", "i", "v", "e", " ", "i", "n", "c", "o", "m", "e" >>,
       << "c", "a", "r", "e", "e", "r", " ", "g", "o", "a", "l", "s" >>,
       << "p", "r", "o", "f", "e", "s", "s", "i", "o", "n", "a", "l", " ", "g", "o", "a", "l", "s" >> >>

\* the interrogative words
questionWords ==
    << << "w", "h", "a", "t" >>,
       << "h", "o", "w" >>,
       << "w", "h", "e", "r", "e" >>,
       << "w", "h", "e", "n" >>,
       << "w", "h", "y" >>,
       << "w", "h", "i", "c", "h" >>,
       << "w", "h", "o" >> >>

\* the verbs of a work context
workContext ==
    << << "s", "t", "u", "d", "y" >>,
       << "l", "e", "a", "r", "n" >>,
       << "b", "e", "c", "o", "m", "e" >>,
       << "g", "e", "t" >>,
       << "f", "i", "n", "d" >>,
       << "c", "h", "o", "o", "s", "e" >>,
       << "d", "e", "c", "i", "d", "e" >>,
       << "s", "t", "a", "r", "t" >> >>

\* list.some(word => messageLower.includes(word))
Some(list, messageLower) == \E i \in DOMAIN list : Includes(messageLower, list[i])

checkIfCareerRelatedByVocabulary(body) ==
    /\ Has(body, "message")
    /\ body.message.t = "string"
    /\ LET messageLower == toLowerCase(body.message.v)
       IN  Some(careerKeywords, messageLower) \/ Some(careerPhrases, messageLower)

\* checkIfCareerRelated(message), message being the field of that name of body
checkIfCareerRelated(body) ==
    /\ Has(body, "message")
    /\ body.message.t = "string"
    /\ body.message.v # << >>
    /\ LET messageLower == toLowerCase(body.message.v)
       IN  \/ Some(careerKeywords, messageLower)
           \/ Some(careerPhrases, messageLower)
           \/ Some(questionWords, messageLower) /\ Some(workContext, messageLower)

-----------------------------------------------------------------------------
(* extractJsonSnippet *)

Digits == { "0", "1", "2", "3", "4", "5", "6", "7", "8", "9" }

\* the least j >= i at which k occurs in s, 0 when there is none
RECURSIVE FindFrom(_, _, _)
FindFrom(s, k, i) ==
    IF i + Len(k) - 1 > Len(s) THEN 0
    ELSE IF SubSeq(s, i, i + Len(k) - 1) = k THEN i
    ELSE FindFrom(s, k, i + 1)

\* the grave accent (U+0060), which a TLA+ string cannot hold
Grave == "grave"

Fence == << Grave, Grave, Grave >>

JsonFence == Fence \o << "j", "s", "o", "n" >>

\* every stretch from open to the nearest closing fence loses its two fences;
\* open is looked for in hay, which is s or s in lower case
RECURSIVE StripFences(_, _, _)
StripFences(s, hay, open) ==
    LET a == FindFrom(hay, open, 1)
        b == FindFrom(s, Fence, a + Len(open))
    IN  IF a = 0 THEN s
        ELSE IF b = 0 THEN s
        ELSE SubSeq(s, 1, a - 1) \o SubSeq(s, a + Len(open), b - 1)
                 \o StripFences(Drop(s, b + 2), Drop(hay, b + 2), open)

\* JSON.parse as a recogniser.  Each operator takes the index at which its
\* part starts and gives the index after it, 0 when the part is malformed.
\* Exponents and \u escapes are outside the texts of the model.
RECURSIVE JsonString(_, _)
JsonString(s, i) ==
    IF i > Len(s) \/ s[i] \in { "\n", "\t" } THEN 0
    ELSE IF s[i] = "\"" THEN i + 1
    ELSE IF s[i] = "\\"
    THEN IF At(s, i + 1) \in { "\"", "\\", "/", "b", "f", "n", "r", "t" }
         THEN JsonString(s, i + 2)
         ELSE 0
    ELSE JsonString(s, i + 1)

RECURSIVE JsonDigits(_, _)
JsonDigits(s, i) == IF At(s, i) \in Digits THEN JsonDigits(s, i + 1) ELSE i

JsonNumber(s, i) ==
    LET int == IF At(s, i) = "-" THEN i + 1 ELSE i
        frac == IF At(s, int) = "0" THEN int + 1 ELSE JsonDigits(s, int)
    IN  IF At(s, int) \notin Digits THEN 0
        ELSE IF At(s, frac) # "." THEN frac
        ELSE IF At(s, frac + 1) \in Digits THEN JsonDigits(s, frac + 1)
        ELSE 0

RECURSIVE JsonValue(_, _)
RECURSIVE JsonElements(_, _)
RECURSIVE JsonMembers(_, _)

JsonValue(s, i) ==
    LET c == At(s, i)
    IN  CASE c = "{" ->
                 IF At(s, SkipWs(s, i + 1)) = "}" THEN SkipWs(s, i + 1) + 1
                 ELSE JsonMembers(s, SkipWs(s, i + 1))
          [] c = "[" ->
                 IF At(s, SkipWs(s, i + 1)) = "]" THEN SkipWs(s, i + 1) + 1
                 ELSE JsonElements(s, SkipWs(s, i + 1))
          [] c = "\"" -> JsonString(s, i + 1)
          [] c \in Digits \cup { "-" } -> JsonNumber(s, i)
          [] c = "t" -> IF SubSeq(s, i, i + 3) = << "t", "r", "u", "e" >> THEN i + 4 ELSE 0
          [] c = "f" -> IF SubSeq(s, i, i + 4) = << "f", "a", "l", "s", "e" >> THEN i + 5 ELSE 0
          [] c = "n" -> IF SubSeq(s, i, i + 3) = << "n", "u", "l", "l" >> THEN i + 4 ELSE 0
          [] OTHER -> 0

JsonElements(s, i) ==
    LET v == JsonValue(s, i)
        j == SkipWs(s, v)
    IN  IF v = 0 THEN 0
        ELSE IF At(s, j) = "," THEN JsonElements(s, SkipWs(s, j + 1))
        ELSE IF At(s, j) = "]" THEN j + 1
        ELSE 0

JsonMembers(s, i) ==
    LET k == JsonString(s, i + 1)
        c == SkipWs(s, k)
        v == JsonValue(s, SkipWs(s, c + 1))
        j == SkipWs(s, v)
    IN  IF At(s, i) # "\"" \/ k = 0 THEN 0
        ELSE IF At(s, c) # ":" \/ v = 0 THEN 0
        ELSE IF At(s, j) = "," THEN JsonMembers(s, SkipWs(s, j + 1))
        ELSE IF At(s, j) = "}" THEN j + 1
        ELSE 0

\* JSON.parse(s) does not throw
JsonParses(s) ==
    LET v == JsonValue(s, SkipWs(s, 1))
    IN  v # 0 /\ SkipWs(s, v) = Len(s) + 1

\* s without the whitespace that stands outside its strings
RECURSIVE Minify(_, _, _)
Minify(s, i, inString) ==
    IF i > Len(s) THEN << >>
    ELSE IF inString
    THEN IF s[i] = "\\" THEN << s[i], At(s, i + 1) >> \o Minify(s, i + 2, TRUE)
         ELSE << s[i] >> \o Minify(s, i + 1, s[i] # "\"")
    ELSE IF s[i] \in WsChars THEN Minify(s, i + 1, FALSE)
    ELSE << s[i] >> \o Minify(s, i + 1, s[i] = "\"")

\* the value JSON.parse gives, written as its minified text
Parsed(s) == [t |-> "json", text |-> Minify(s, 1, FALSE)]

ShrinkOnce(s, i) ==
    IF i > 0 /\ JsonParses(TrimWs(SubSeq(s, 1, i))) THEN Parsed(TrimWs(SubSeq(s, 1, i)))
    ELSE Null

\* the longest prefix of s that parses once trimmed
RECURSIVE Shrink(_, _)
Shrink(s, i) ==
    IF i = 0 THEN Null
    ELSE IF JsonParses(TrimWs(SubSeq(s, 1, i))) THEN Parsed(TrimWs(SubSeq(s, 1, i)))
    ELSE Shrink(s, i - 1)

extractJsonSnippet(text) ==
    LET unfenced == StripFences(text, toLowerCase(text), JsonFence)
        cleaned == TrimWs(StripFences(unfenced, unfenced, Fence))
        starts == { i \in DOMAIN cleaned : cleaned[i] \in { "[", "{" } }
        startIdx == CHOOSE i \in starts : \A j \in starts : i <= j
    IN  IF text = << >> \/ starts = {} THEN Null
        ELSE Shrink(Drop(cleaned, startIdx - 1), Len(cleaned) - startIdx + 1)

-----------------------------------------------------------------------------
(* POST /api/chat *)

\* the messages of the chat requests
Message ==
    [ weather |->
          << "W", "h", "a", "t", " ", "i", "s", " ", "t", "h", "e", " ", "w", "e", "a", "t", "h",
             "e", "r", "?" >>,
      joke |->
          << "T", "e", "l", "l", " ", "m", "e", " ", "a", " ", "j", "o", "k", "e" >>,
      career |->
          << "C", "a", "r", "e", "e", "r", " ", "t", "i", "p", "s" >>,
      chef |->
          << "H", "O", "W", " ", "D", "O", " ", "I", " ", "B", "E", "C", "O", "M", "E", " ", "A",
             " ", "C", "H", "E", "F" >>,
      start |->
          << "w", "h", "e", "r", "e", " ", "t", "o", " ", "s", "t", "a", "r", "t" >>,
      three |->
          << "t", "h", "r", "e", "e" >> ]

Undefined ==
    << "u", "n", "d", "e", "f", "i", "n", "e", "d" >>

\* the texts the gateway returns
Text ==
    [ plain |->
          << "G", "o", " ", "f", "o", "r", " ", "i", "t" >>,
      json |->
          << "{", "\"", "a", "\"", ":", "1", "}" >>,
      fenced |->
          << Grave, Grave, Grave, "j", "s", "o", "n", "\n", "[", "1", ",", " ", "2", "]", "\n",
             Grave, Grave, Grave >>,
      prose |->
          << "S", "u", "r", "e", ":", " ", "{", "\"", "a", "\"", ":", " ", "[", "t", "r", "u",
             "e", "]", "}", " ", "o", "k" >>,
      broken |->
          << "{", "\"", "a", "\"", ":" >>,
      fencedA |->
          << "H", "e", "r", "e", ":", "\n", Grave, Grave, Grave, "j", "s", "o", "n", "\n", "{",
             "\"", "a", "\"", ":", "1", "}", "\n", Grave, Grave, Grave >> ]

\* the messages of the exceptions the gateway throws
ErrorText ==
    [ apiKey |->
          << "A", "P", "I", "_", "K", "E", "Y", " ", "n", "o", "t", " ", "v", "a", "l", "i",
             "d" >>,
      quota |->
          << "q", "u", "o", "t", "a", " ", "e", "x", "c", "e", "e", "d", "e", "d", " ", "f", "o",
             "r", " ", "m", "o", "d", "e", "l" >>,
      model |->
          << "m", "o", "d", "e", "l", " ", "n", "o", "t", " ", "f", "o", "u", "n", "d" >>,
      network |->
          << "f", "e", "t", "c", "h", " ", "f", "a", "i", "l", "e", "d" >>,
      all |->
          << "m", "o", "d", "e", "l", " ", "q", "u", "o", "t", "a", " ", "A", "P", "I", "_", "K",
             "E", "Y" >>,
      lowerKey |->
          << "a", "p", "i", "_", "k", "e", "y" >> ]

\* the opening sentence of the fixed message; the sections that follow it are left out
RedirectMessage ==
    << "I", "'", "m", " ", "C", "a", "r", "e", "e", "r", "i", "o", "n", " ", "A", "I", ",",
       " ", "y", "o", "u", "r", " ", "d", "e", "d", "i", "c", "a", "t", "e", "d", " ", "c",
       "a", "r", "e", "e", "r", " ", "g", "u", "i", "d", "a", "n", "c", "e", " ", "a", "s",
       "s", "i", "s", "t", "a", "n", "t", "!", " ", "I", "'", "m", " ", "h", "e", "r", "e",
       " ", "t", "o", " ", "p", "r", "o", "v", "i", "d", "e", " ", "c", "o", "m", "p", "r",
       "e", "h", "e", "n", "s", "i", "v", "e", " ", "a", "d", "v", "i", "c", "e", " ", "o",
       "n", ":" >>

\* the items of a history
Item ==
    [ user |-> [sender |-> "user", text |-> "hi"],
      ai |-> [sender |-> "ai", text |-> "hello"],
      noText |-> [sender |-> "user", text |-> ""],
      aiNoText |-> [sender |-> "ai", text |-> ""] ]

ChatBodies ==
    { [message |-> Str(Message.weather)],
      [message |-> Str(Message.joke), history |-> Arr(<< Item.user, Item.ai >>),
       systemPrompt |-> Str("Be brief")],
      [message |-> Str(Message.joke), history |-> Arr(<< Item.ai >>), expectJson |-> Bool(FALSE)],
      [message |-> Str(Message.joke), expectJson |-> Bool(TRUE)],
      [message |-> Num(<< "4", "2" >>)],
      [message |-> Str(<< >>)],
      [systemPrompt |-> Str("Be brief")],
      EmptyObject,
      [message |-> Str(Message.career)],
      [message |-> Str(Message.chef), systemPrompt |-> Str("Be brief")],
      [message |-> Str(Message.start)],
      [message |-> Str(Message.three)],
      [message |-> Str(Message.career), history |-> Arr(<< Item.user, Item.ai >>)],
      [message |-> Str(Message.career), history |-> Arr(<< Item.ai, Item.user >>)],
      [message |-> Str(Message.career), history |-> Arr(<< Item.noText, Null >>)],
      [message |-> Str(Message.career), history |-> Arr(<< Item.aiNoText, Item.user >>)],
      [message |-> Str(Message.career), history |-> Arr(<< >>)],
      [message |-> Str(Message.career), history |-> Str("hi")],
      [message |-> Str(Message.career), history |-> Arr(<< Item.user >>),
       expectJson |-> Bool(TRUE)] }

GatewayTexts == { Text.plain, Text.json, Text.fenced, Text.prose, Text.broken, Text.fencedA }

\* an exception that carries no message
GatewayThrowsBare == [kind |-> "throw"]

GatewayResults ==
    { GatewayReturns(t) : t \in GatewayTexts }
        \cup { GatewayThrows(m) : m \in { ErrorText.apiKey, ErrorText.quota, ErrorText.model, ErrorText.network,
                                        ErrorText.all, ErrorText.lowerKey } }
        \cup { GatewayThrowsBare }

FallbackResults ==
    { GatewayReturns(Text.json), GatewayThrows(ErrorText.quota), GatewayThrows(ErrorText.network) }

\* the classifier and the extraction, worked out once for the inputs of the model
CareerRelated == [body \in ChatBodies |-> checkIfCareerRelated(body)]

Snippet == [text \in GatewayTexts |-> extractJsonSnippet(text)]

\* !!body[k] for a typed field
TruthyField(body, k) == Has(body, k) /\ Truthy(body[k])

ShortCircuitWithoutHistory(body) ==
    ~CareerRelated[body] /\ ~TruthyField(body, "expectJson") /\ ~Has(body, "history")

\* the request is answered with the fixed message
ShortCircuit(body) == ~CareerRelated[body] /\ ~TruthyField(body, "expectJson")

\* `${message}`
TemplateText(body) == IF Has(body, "message") THEN body.message.v ELSE Undefined

\* the section '## User Profile Analysis' of the prompt: the values it shows,
\* nothing at all without a profile
ProfileAnalysis(userProfile) ==
    IF userProfile = Null THEN Null
    ELSE [educationLevel |-> OrNotSpecified(userProfile, "educationLevel"),
          fieldOfStudy |-> OrNotSpecified(userProfile, "fieldOfStudy"),
          institution |-> OrNotSpecified(userProfile, "institution"),
          currentStatus |-> OrNotSpecified(userProfile, "currentStatus"),
          workExperience |-> OrNotSpecified(userProfile, "workExperience"),
          skills |-> IF userProfile.skills.v # << >> THEN Join(userProfile.skills.v)
                     ELSE "Not specified",
          interests |-> IF userProfile.interests.v # << >> THEN Join(userProfile.interests.v)
                        ELSE "Not specified",
          careerGoals |-> OrNotSpecified(userProfile, "careerGoals"),
          preferredWorkEnvironment |-> OrNotSpecified(userProfile, "preferredWorkEnvironment"),
          preferredWorkLocation |-> OrNotSpecified(userProfile, "preferredWorkLocation"),
          willingToRelocate |->
              IF Has(userProfile, "willingToRelocate") /\ Truthy(userProfile.willingToRelocate)
              THEN "Yes" ELSE "No",
          salaryExpectations |-> OrNotSpecified(userProfile, "salaryExpectations")]

\* generateEnhancedCareerPrompt(message, userProfile): the values its template
\* is filled with
generateEnhancedCareerPrompt(body, userProfile) ==
    [template |-> "enhanced-career", profile |-> ProfileAnalysis(userProfile),
     question |-> TemplateText(body)]

\* fullPrompt
fullPrompt(body, userProfile) ==
    [prompt |-> generateEnhancedCareerPrompt(body, userProfile),
     additional |-> IF TruthyField(body, "systemPrompt") THEN << body.systemPrompt.v >> ELSE << >>,
     strictJson |-> TruthyField(body, "expectJson")]

\* msg && msg.sender && msg.text
ValidItem(msg) == ~FalsyStr(msg, "sender") /\ ~FalsyStr(msg, "text")

RECURSIVE validHistoryAllUser(_)
validHistoryAllUser(history) ==
    IF history = << >> THEN << >>
    ELSE IF ValidItem(Head(history))
    THEN << [role |-> "user", parts |-> << [text |-> Head(history).text] >>] >>
             \o validHistoryAllUser(Tail(history))
    ELSE validHistoryAllUser(Tail(history))

\* history.filter(msg => msg && msg.sender && msg.text).map(...)
RECURSIVE validHistory(_)
validHistory(history) ==
    IF history = << >> THEN << >>
    ELSE IF ValidItem(Head(history))
    THEN << [role |-> IF Head(history).sender = "user" THEN "user" ELSE "model",
             parts |-> << [text |-> Head(history).text] >>] >>
             \o validHistory(Tail(history))
    ELSE validHistory(Tail(history))

\* Array.isArray(history) && history.length > 0
HasHistory(body) ==
    Has(body, "history") /\ body.history.t = "array" /\ body.history.v # << >>

\* the catch block: the first of 'API_KEY', 'quota', 'model' that the message holds
ChatErrorQuotaFirst(g) ==
    IF ~Has(g, "message") THEN "Failed to get response from AI. Check server logs."
    ELSE IF Includes(g.message, << "q", "u", "o", "t", "a" >>)
    THEN "API quota exceeded. Please try again later."
    ELSE IF Includes(g.message, << "A", "P", "I", "_", "K", "E", "Y" >>)
    THEN "Invalid API key. Please check your Gemini API key configuration."
    ELSE IF Includes(g.message, << "m", "o", "d", "e", "l" >>)
    THEN "Invalid model specified. Please check the model configuration."
    ELSE "Failed to get response from AI. Check server logs."

ChatError(g) ==
    IF ~Has(g, "message") THEN "Failed to get response from AI. Check server logs."
    ELSE IF Includes(g.message, << "A", "P", "I", "_", "K", "E", "Y" >>)
    THEN "Invalid API key. Please check your Gemini API key configuration."
    ELSE IF Includes(g.message, << "q", "u", "o", "t", "a" >>)
    THEN "API quota exceeded. Please try again later."
    ELSE IF Includes(g.message, << "m", "o", "d", "e", "l" >>)
    THEN "Invalid model specified. Please check the model configuration."
    ELSE "Failed to get response from AI. Check server logs."

ChatAnswerUnfenced(body, text) ==
    [response |-> StripFences(text, text, Fence), modelUsed |-> GEMINI_MODEL,
     json |-> IF TruthyField(body, "expectJson") THEN Snippet[text] ELSE Null]

\* the body of a 200 that carries the text of the gateway
ChatAnswer(body, text) ==
    [response |-> text, modelUsed |-> GEMINI_MODEL,
     json |-> IF TruthyField(body, "expectJson") THEN Snippet[text] ELSE Null]

historyErrorNever(chat, g1) == FALSE

\* the catch around startChat / sendMessage is entered: the session was tried
\* and something in its try block threw
historyError(chat, g1) == chat /\ g1.kind = "throw"

KeyMissingNever(keySet) == FALSE

\* !process.env.GEMINI_API_KEY, read when the request is handled
KeyMissing(keySet) == ~keySet

\* userProfile: the profile of the record of req.user, null without req.user
\* or without the record.  The route is mounted without authMiddleware, so
\* nothing sets req.user, whatever the Authorization header holds.
ChatUserProfile(hdr) ==
    LET user == Null
    IN  IF user = Null \/ findById(user.userId) = {} THEN Null
        ELSE One(findById(user.userId)).profile

Chat(hdr, keySet, body, g1, g2) ==
    /\ Listening
    /\ LET prompt == fullPrompt(body, ChatUserProfile(hdr))
           single == [fn |-> "generateContent", model |-> GEMINI_MODEL, prompt |-> prompt]
           \* model.startChat({ history }) and sendMessage(fullPrompt) on the
           \* session it gives; g1 is the outcome of the two
           session == [fn |-> "startChat", model |-> GEMINI_MODEL, prompt |-> prompt,
                       history |-> validHistory(body.history.v)]
           \* the history goes to a chat session unless it starts with the model
           chat == HasHistory(body)
                     /\ (validHistory(body.history.v) = << >>
                           \/ validHistory(body.history.v)[1].role = "user")
           fellBack == historyError(chat, g1)
           calls == IF ~chat THEN << single >>
                    ELSE IF fellBack THEN << session, single >> ELSE << session >>
           final == IF fellBack THEN g2 ELSE g1
           req == [authorization |-> hdr, key |-> keySet, body |-> body,
                   gateway |-> IF fellBack THEN << g1, g2 >> ELSE << g1 >>]
       IN  IF KeyMissing(keySet)
           THEN Reply("chat", [authorization |-> hdr, key |-> keySet, body |-> body], 500,
                      [error |-> "GEMINI_API_KEY is not configured on the server."],
                      TRUE, << >>, << >>)
           ELSE IF ShortCircuit(body)
           THEN Reply("chat", [authorization |-> hdr, key |-> keySet, body |-> body], 200,
                      [response |-> RedirectMessage, modelUsed |-> GEMINI_MODEL],
                      TRUE, << >>, << >>)
           ELSE IF final.kind = "throw"
           THEN Reply("chat", req, 500, [error |-> ChatError(final)], TRUE, << >>, calls)
           ELSE Reply("chat", req, 200, ChatAnswer(body, final.text), TRUE, << >>, calls)
    /\ UNCHANGED <<mongoUri, inflight, phase, seedPending, store, now, wallet, stale, plainOf, signedUp>>

-----------------------------------------------------------------------------
(* Specifications *)

Boot ==
    \/ startServer
    \/ ConnectFailed
    \/ createSampleData

AuthRequests ==
    \/ \E body \in SignupBodies : Signup(body)
    \/ \E body \in LoginBodies : Login(body)
    \/ \E hdr \in Headers : Me(hdr)
    \/ Logout

GoogleRequests ==
    \E body \in GoogleBodies, hasFetch \in BOOLEAN, r1 \in UserInfoResults,
       r2 \in TokenInfoResults, rnd \in RandomStrings :
        GoogleAuth(body, hasFetch, r1, r2, rnd)

ProfileRequests ==
    \/ \E hdr \in Headers : GetProfile(hdr)
    \/ \E hdr \in Headers, payload \in ProfileBodies : PostProfile(hdr, payload)

RecommendationRequests ==
    \E hdr \in Headers, keySet \in BOOLEAN, body \in RecommendationBodies,
       g \in RecommendationResults :
        CareerRecommendations(hdr, keySet, body, g)

ChatRequests ==
    \E keySet \in BOOLEAN, body \in ChatBodies, g1 \in GatewayResults, g2 \in FallbackResults :
        Chat(NoHeader, keySet, body, g1, g2)

AdminRequests ==
    \/ \E hdr \in AdminHeaders : AdminStats(hdr)
    \/ \E hdr \in AdminHeaders : AdminUsers(hdr)
    \/ \E hdr \in AdminHeaders : AdminJobs(hdr)
    \/ \E hdr \in AdminHeaders : AdminCompanies(hdr)
    \/ \E hdr \in AdminHeaders : AdminApplications(hdr)
    \/ \E hdr \in AdminHeaders, id \in 1..MaxIds : AdminDeleteUser(hdr, id)

StoreEvents ==
    \/ \E j \in { d._id : d \in jobs }, u \in { d._id : d \in users } : ApplicationCreated(j, u)
    \/ ClearCollections

\* userinfo answers of two Google accounts, one with the email of a sample user
RaceProfiles ==
    { Ok([sub |-> "108", email |-> "gina@example.com", name |-> "Gina G", picture |-> "g.png"]),
      Ok([sub |-> "109", email |-> "john@example.com"]) }

RaceSignups ==
    { [name |-> "Ann", email |-> e, password |-> Secret6] :
          e \in { "gina@example.com", "john@example.com" } }

SeedWrites == \E r \in inflight, ordered \in BOOLEAN : SeedCreate(r, ordered)

Interleaved ==
    \/ Restart
    \/ countDocuments
    \/ SeedWrites
    \/ \E conn \in 1..MaxInflight, body \in RaceSignups : SignupFind(conn, body)
    \/ \E r \in inflight : SignupSave(r)
    \/ \E conn \in 1..MaxInflight, r1 \in RaceProfiles, rnd \in RandomStrings :
           GoogleFind(conn, [token |-> "google-token"], r1, rnd)
    \/ \E r \in inflight : GoogleSave(r)

Next ==
    \/ Boot
    \/ Interleaved
    \/ Tick
    \/ AuthRequests
    \/ GoogleRequests
    \/ ProfileRequests
    \/ RecommendationRequests
    \/ ChatRequests
    \/ AdminRequests
    \/ StoreEvents

Spec == Init /\ [][Next]_vars

\* the handlers interleaved at their awaits, over restarts of the process; the
\* event loop runs every continuation that is ready
SpecRace ==
    /\ Init
    /\ [][startServer \/ ConnectFailed \/ Interleaved]_vars
    /\ WF_vars(countDocuments)
    /\ WF_vars(SeedWrites)

\* sign-up, sign-in and the session over the seven days of a token
SpecAuth == Init /\ [][Boot \/ Tick \/ AuthRequests]_vars

\* the requests of a client that signs up once and sends its token properly
AnnSignup == [name |-> "Ann", email |-> "ann@example.com", password |-> Secret6]

BearerHeaders == { Header(BearerSp, << t >>) : t \in WalletTokens }

\* the routes behind the auth middleware, under every header
SpecGuard ==
    Init /\ [][
        \/ Boot
        \/ Tick
        \/ Signup(AnnSignup)
        \/ \E hdr \in Headers : Me(hdr)
        \/ \E hdr \in Headers : GetProfile(hdr)
        \/ \E hdr \in Headers, payload \in { CompleteProfile, EmptyObject } : PostProfile(hdr, payload)
        \/ RecommendationRequests
    ]_vars

\* the session of a user whose record may disappear
SpecStore ==
    Init /\ [][
        \/ Boot
        \/ \E body \in SignupBodies : Signup(body)
        \/ \E body \in LoginBodies : Login(body)
        \/ \E hdr \in Headers : Me(hdr)
        \/ ClearCollections
    ]_vars

\* the admin panel
SpecAdmin ==
    Init /\ [][
        \/ Boot
        \/ Signup(AnnSignup)
        \/ AdminRequests
        \/ \E j \in { d._id : d \in jobs }, u \in { d._id : d \in users } : ApplicationCreated(j, u)
    ]_vars

\* every route that answers with user data, for a client that signs up or
\* signs in with Google and sends its token properly
SpecUserData ==
    Init /\ [][
        \/ Boot
        \/ Signup(AnnSignup)
        \/ Login([email |-> "john@example.com", password |-> Password123])
        \/ \E r1 \in UserInfoResults, r2 \in TokenInfoResults :
               GoogleAuth([token |-> "google-token"], TRUE, r1, r2, << "4", "f", "z", "y", "o" >>)
        \/ \E hdr \in BearerHeaders : Me(hdr)
        \/ \E hdr \in BearerHeaders : GetProfile(hdr)
        \/ \E hdr \in BearerHeaders,
              payload \in { CompleteProfile,
                            CompleteProfile @@ [role |-> Str("admin"), password |-> Str("x")] } :
               PostProfile(hdr, payload)
        \/ \E hdr \in AdminHeaders : AdminUsers(hdr)
        \/ \E hdr \in AdminHeaders : AdminApplications(hdr)
        \/ \E j \in { d._id : d \in { e \in jobs : e.title = "Senior Developer" } },
              u \in { d._id : d \in { e \in users : e.name \in { "Ann", "John Doe" } } } :
               ApplicationCreated(j, u)
    ]_vars

\* the three ways a password gets stored
SpecPasswords ==
    Init /\ [][
        \/ Boot
        \/ \E body \in SignupBodies : Signup(body)
        \/ GoogleRequests
    ]_vars

\* the chat proxy
SpecChat == Init /\ [][Boot \/ ChatRequests]_vars

\* the life of a token: the three sign-ins, the clock, logout
SpecSession ==
    Init /\ [][
        \/ Boot
        \/ Tick
        \/ Signup(AnnSignup)
        \/ Login([email |-> "john@example.com", password |-> Password123])
        \/ \E r1 \in { r \in UserInfoResults : r.kind = "ok" } :
               GoogleAuth([token |-> "google-token"], TRUE, r1, NotCalled, << "4", "f", "z", "y", "o" >>)
        \/ \E hdr \in Headers : Me(hdr)
        \/ Logout
    ]_vars

\* the profile of a client that signed up, under every header
SpecProfile == Init /\ [][Boot \/ Signup(AnnSignup) \/ ProfileRequests]_vars

\* the chat proxy called by a client that signed up, filled in its profile and
\* sends its token
SpecChatProfile ==
    Init /\ [][
        \/ Boot
        \/ Signup(AnnSignup)
        \/ \E hdr \in BearerHeaders, payload \in { CompleteProfile, EmptyObject } :
               PostProfile(hdr, payload)
        \/ \E hdr \in { NoHeader } \cup BearerHeaders,
              body \in { [message |-> Str(Message.career)],
                         [message |-> Str(Message.career), history |-> Arr(<< Item.user >>),
                          expectJson |-> Bool(TRUE)] },
              keySet \in BOOLEAN,
              g1 \in { GatewayReturns(Text.plain), GatewayReturns(Text.json),
                       GatewayThrows(ErrorText.quota) } :
               Chat(hdr, keySet, body, g1, GatewayReturns(Text.json))
    ]_vars

-----------------------------------------------------------------------------
(* The claims *)

GuardedRoutes == { "me", "getProfile", "postProfile", "recommendations" }

\* the header is absent, does not start with 'Bearer ', or has nothing after it
NoToken(h) ==
    \/ ~h.present
    \/ ~IsPrefix(BearerSp, h.scheme)
    \/ h.scheme = BearerSp /\ h.cred = << >>

\* the header is 'Bearer ' followed by a token signed with the secret less than
\* seven days before t
Genuine(h, t) ==
    /\ h.present
    /\ h.scheme = BearerSp
    /\ Len(h.cred) = 1
    /\ h.cred[1].fmt = "jwt"
    /\ h.cred[1].sig = JwtSecret
    /\ t < h.cred[1].iat + 7 * 24

\* a request has just been served on one of the routes
Served(routes) == last' # last /\ last'.route \in routes

NotEntered(r) == ~r.ran /\ r.db = << >> /\ r.ai = << >>

C1_Step ==
    Served(GuardedRoutes) =>
        LET h == last'.req.authorization
        IN  /\ last'.ran => Genuine(h, last'.at)
            /\ NoToken(h) =>
                   /\ last'.status = 401
                   /\ last'.body = [error |-> "Authorization token missing"]
                   /\ NotEntered(last')
                   /\ store' = store
            /\ ~NoToken(h) /\ ~Genuine(h, last'.at) =>
                   /\ last'.status = 401
                   /\ last'.body = [error |-> "Invalid or expired token"]
                   /\ NotEntered(last')
                   /\ store' = store

\* C1: on the four routes behind the auth middleware the handler runs only for
\* a header 'Bearer <token>' whose token is signed with the secret and less than
\* seven days old; a header that is absent, of another scheme or empty gets 401
\* 'Authorization token missing', any other that fails gets 401 'Invalid or
\* expired token', and in both cases the handler is not entered and the store
\* is left as it was.
C1_GuardRejects == [][C1_Step]_vars

\* an expired token of the client is refused on the recommendations route
C1_Witness ==
    /\ last.route = "recommendations"
    /\ last.status = 401
    /\ last.body = [error |-> "Invalid or expired token"]
    /\ last.req.authorization.scheme = BearerSp
    /\ last.req.authorization.cred = wallet
    /\ wallet # << >>
    /\ wallet[1].sig = JwtSecret
    /\ last.at >= wallet[1].iat + 7 * 24
    /\ users # {}

AdminRoutes == { "adminStats", "adminUsers", "adminJobs", "adminCompanies", "adminApplications" }

\* C2: an admin route answers 401 to a request without a bearer token, and 200
\* only to a caller whose token carries the role admin or superadmin.
C2_AdminNeedsRole ==
    last.route \in AdminRoutes =>
        LET h == last.req.authorization
        IN  /\ ~h.present => last.status = 401
            /\ last.status = 200 =>
                   /\ h.present
                   /\ h.cred # << >>
                   /\ "role" \in DOMAIN h.cred[1]
                   /\ h.cred[1].role \in { "admin", "superadmin" }

UserDataRoutes ==
    { "signup", "login", "google", "me", "getProfile", "postProfile",
      "adminUsers", "adminApplications" }

Carries(r) == "password" \in DOMAIN r

\* C3: no response of the sign-in routes, of /api/auth/me, of the profile
\* routes, of the admin users list or of the admin applications list holds a
\* password field, at the top, in its user, in its profile, in its token, in a
\* list item or in the user an application is populated with.
C3_NoPasswordInResponse ==
    last.route \in UserDataRoutes =>
        /\ ~Carries(last.body)
        /\ Has(last.body, "user") => ~Carries(last.body.user)
        /\ Has(last.body, "profile") => ~Carries(last.body.profile)
        /\ Has(last.body, "token") => ~Carries(last.body.token)
        /\ Has(last.body, "list") =>
               \A i \in DOMAIN last.body.list :
                   /\ ~Carries(last.body.list[i])
                   /\ Has(last.body.list[i], "userId") => ~Carries(last.body.list[i].userId)

\* the applications list shows an application populated with a stored user
C3_Witness ==
    /\ last.route = "adminApplications"
    /\ last.body.list # << >>
    /\ last.body.list[1].userId # Null
    /\ \E u \in users : u._id = last.body.list[1].userId._id /\ Carries(u)

\* C4: every stored password is a bcrypt hash that differs from the plaintext
\* it was made of and that the plaintext verifies against, and no stored
\* password is any of the plaintexts supplied.
C4_StoredPasswordIsHash ==
    \A u \in users :
        /\ u._id \in DOMAIN plainOf
        /\ u.password # plainOf[u._id]
        /\ IsPrefix(BcryptPrefix, u.password)
        /\ bcryptCompare(plainOf[u._id], u.password)
        /\ \A i \in DOMAIN plainOf : u.password # plainOf[i]

\* the store holds a user who signed up, one of a first Google login and a seeded one
C4_Witness ==
    /\ \E u \in users : u.email = "ann@example.com" /\ u.name = "Ann"
    /\ \E u \in users : u.email = "gina@example.com"
    /\ \E u \in users : u.email = "john@example.com" /\ u.name = "John Doe"

\* a body with its three fields and a password of six characters or more
WellFormedSignup(req) ==
    /\ ~FalsyStr(req, "name")
    /\ ~FalsyStr(req, "email")
    /\ ~FalsySeq(req, "password")
    /\ Len(req.password) >= 6

RepeatedSignupRefused ==
    /\ last'.status = 400
    /\ last'.body = [error |-> "User with this email already exists"]
    /\ users' = users
    /\ nextId' = nextId
    /\ wallet' = wallet

C5_OriginalStep ==
    (Served({ "signup" }) /\ Has(last'.req, "email") /\ last'.req.email \in signedUp)
        => RepeatedSignupRefused

\* C5 as stated: after a signup for e answered 201, every later signup request
\* for e is answered 400 'already exists', with no token and no change of the
\* store.
C5_Original == [][C5_OriginalStep]_vars

C5_Step ==
    (Served({ "signup" }) /\ Has(last'.req, "email") /\ last'.req.email \in signedUp)
        => /\ last'.status = 400
           /\ ~Has(last'.body, "token")
           /\ users' = users
           /\ nextId' = nextId
           /\ wallet' = wallet
           /\ WellFormedSignup(last'.req) => RepeatedSignupRefused

\* C5: after a signup for e answered 201, every later signup request for e is
\* answered 400 with no token and no change of the store, and with the error
\* 'User with this email already exists' when its three fields are present and
\* its password has six characters or more.
C5_RepeatedSignup == [][C5_Step]_vars

\* a second well formed signup for an email that signed up has been refused
C5_Witness ==
    /\ last.route = "signup"
    /\ last.status = 400
    /\ last.body = [error |-> "User with this email already exists"]
    /\ last.req.email \in signedUp
    /\ \E u \in users : u.email = last.req.email

C6_Step ==
    (Served({ "signup" }) /\ ~WellFormedSignup(last'.req)) =>
        /\ last'.status = 400
        /\ ~Has(last'.body, "token")
        /\ store' = store
        /\ wallet' = wallet
        /\ (~FalsyStr(last'.req, "name") /\ ~FalsyStr(last'.req, "email")
               /\ ~FalsySeq(last'.req, "password")) =>
               last'.body = [error |-> "Password must be at least 6 characters long"]

\* C6: a signup whose name, email or password is missing or empty, or whose
\* password has fewer than six characters, is answered 400 (for the short
\* password with 'Password must be at least 6 characters long'), with no token
\* and no change of the store.
C6_InvalidSignup == [][C6_Step]_vars

\* a signup with a password of five characters has been refused
C6_Witness ==
    /\ last.route = "signup"
    /\ last.req = [name |-> "Ann", email |-> "ann@example.com", password |-> Short5]
    /\ last.status = 400
    /\ last.body = [error |-> "Password must be at least 6 characters long"]

\* the email of the login has no record, or it has one whose password was made
\* of another plaintext
BadCredentials(req) ==
    \/ \A u \in users : u.email # req.email
    \/ \E u \in users : u.email = req.email /\ plainOf[u._id] # req.password

C7_Step ==
    (Served({ "login" }) /\ ~FalsyStr(last'.req, "email") /\ ~FalsySeq(last'.req, "password")
         /\ BadCredentials(last'.req)) =>
        /\ last'.status = 401
        /\ last'.body = [error |-> "Invalid email or password"]
        /\ store' = store
        /\ wallet' = wallet

\* C7: a login for an email without a record and a login with a wrong password
\* for an email that has one get the same answer, 401 'Invalid email or
\* password', with no token and no change of the store.
C7_LoginFailure == [][C7_Step]_vars

\* a login with a wrong password for a registered email has been refused
C7_Witness ==
    /\ last.route = "login"
    /\ last.status = 401
    /\ \E u \in users : u.email = last.req.email /\ plainOf[u._id] # last.req.password

C8_Step ==
    /\ (Served({ "signup", "login", "google" }) /\ Has(last'.body, "token")) =>
           /\ last'.body.token.userId = last'.body.user._id
           /\ last'.body.token.email = last'.body.user.email
           /\ last'.body.token.iat = last'.at
           /\ \E u \in users' : u._id = last'.body.token.userId /\ u.email = last'.body.token.email
    /\ (Served({ "me" }) /\ last'.req.authorization.scheme = BearerSp
           /\ Len(last'.req.authorization.cred) = 1
           /\ last'.req.authorization.cred[1].fmt = "jwt"
           /\ last'.req.authorization.cred[1].sig = JwtSecret) =>
           (last'.ran <=> last'.at < last'.req.authorization.cred[1].iat + 7 * 24)
    /\ Served({ "logout" }) => store' = store /\ last'.status = 200

C9_Step ==
    (Served({ "me" }) /\ last'.ran) =>
        LET tok == last'.req.authorization.cred[1]
            mine == { u \in users : u._id = tok.userId }
        IN  IF mine = {}
            THEN last'.status = 404 /\ last'.body = [error |-> "User not found"]
            ELSE /\ last'.status = 200
                 /\ ~Carries(last'.body)
                 /\ last'.body._id = tok.userId
                 /\ last'.body.email = tok.email
                 /\ \E u \in mine : last'.body = [k \in DOMAIN u \ { "password" } |-> u[k]]

\* C9: /api/auth/me with a valid token answers 200 with the stored record whose
\* id is the userId of the token, less its password, and 404 'User not found'
\* when the store holds no record of that id.
C9_OwnRecord == [][C9_Step]_vars

\* the record of the caller is gone: 404
C9_Witness ==
    /\ last.route = "me"
    /\ last.ran
    /\ last.status = 404
    /\ last.req.authorization.cred = wallet

CareerWord ==
    << "c", "a", "r", "e", "e", "r" >>

\* the classifier rejects the message and expectJson is not set
OffTopic(req) == ~CareerRelated[req.body] /\ ~TruthyField(req.body, "expectJson")

Redirected(r) ==
    /\ r.status = 200
    /\ Has(r.body, "response")
    /\ r.body.response = RedirectMessage
    /\ Includes(r.body.response, CareerWord)
    /\ r.ai = << >>

\* C10 as stated: a chat request whose message the classifier rejects and whose
\* expectJson is not set is answered 200 with the fixed message, and the
\* gateway is not called.
C10_Original == (last.route = "chat" /\ OffTopic(last.req)) => Redirected(last)

\* C10: while the key of the AI service is configured, a chat request whose
\* message the classifier rejects and whose expectJson is not set is answered
\* 200 with the fixed message, which holds the word 'career', and the gateway
\* is not called, whatever history and systemPrompt come with it.
C10_Redirect == (last.route = "chat" /\ last.req.key /\ OffTopic(last.req)) => Redirected(last)

\* a joke asked with a history and a system prompt is answered with the fixed message
C10_Witness ==
    /\ last.route = "chat"
    /\ last.req.key
    /\ Has(last.req.body, "history")
    /\ Has(last.req.body, "systemPrompt")
    /\ OffTopic(last.req)
    /\ Redirected(last)

\* the message is a string that holds one of the career keywords, in any case
HasCareerKeyword ==
    [body \in ChatBodies |->
        /\ Has(body, "message")
        /\ body.message.t = "string"
        /\ Some(careerKeywords, toLowerCase(body.message.v))]

\* the outcome of the last call the request made to the gateway
FinalOutcome(r) == r.req.gateway[Len(r.req.gateway)]

\* the gateway was called, and the text it returned is the response of a 200
GatewayAnswered(r) ==
    /\ r.ai # << >>
    /\ Has(r.req, "gateway")
    /\ FinalOutcome(r).kind = "ok" =>
           /\ r.status = 200
           /\ r.body.response = FinalOutcome(r).text
           /\ r.body.response # RedirectMessage

\* C11 as stated: for every chat request whose message holds a career keyword
\* the gateway is called and the text it returns is the response of a 200.
C11_Original ==
    (last.route = "chat" /\ HasCareerKeyword[last.req.body]) => GatewayAnswered(last)

\* C11: while the key of the AI service is configured, for every chat request
\* whose message holds a career keyword the gateway is called, and the text it
\* returns is, unmodified, the response of a 200 and is never replaced by the
\* fixed message.
C11_KeywordAnswered ==
    (last.route = "chat" /\ last.req.key /\ HasCareerKeyword[last.req.body])
        => GatewayAnswered(last)

\* a question about a career was answered with the fenced text of the gateway
C11_Witness ==
    /\ last.route = "chat"
    /\ last.req.key
    /\ HasCareerKeyword[last.req.body]
    /\ last.status = 200
    /\ last.ai # << >>
    /\ last.body.response = Text.fenced

-----------------------------------------------------------------------------

C12_Step ==
    (Served({ "chat" }) /\ ~last'.req.key) =>
        /\ Listening
        /\ last'.status = 500
        /\ last'.body = [error |-> "GEMINI_API_KEY is not configured on the server."]
        /\ last'.ai = << >>
        /\ phase' = "listening"
        /\ store' = store

\* C12: a chat request handled while the key of the AI service is not
\* configured is answered 500 'GEMINI_API_KEY is not configured on the
\* server.' with no call of the gateway; the server was listening when the
\* request came and is listening after it.
C12_KeyCheckedPerRequest == [][C12_Step]_vars

\* a question about a career, asked without the key, was refused while the
\* server keeps listening
C12_Witness ==
    /\ last.route = "chat"
    /\ ~last.req.key
    /\ HasCareerKeyword[last.req.body]
    /\ last.status = 500
    /\ last.ai = << >>
    /\ Listening

-----------------------------------------------------------------------------

\* the entries of a history that have a sender and a text
Kept(h) ==
    SelectSeq(h, LAMBDA e : /\ Has(e, "sender") /\ e.sender # ""
                            /\ Has(e, "text") /\ e.text # "")

\* the request carries a history and the sender of its first entry is not 'user'
FirstNotUser(body) ==
    /\ HasHistory(body)
    /\ ~(Has(body.history.v[1], "sender") /\ body.history.v[1].sender = "user")

\* the request carries a history, and the sender of the first of its entries
\* that have a sender and a text is not 'user'
FirstKeptNotUser(body) ==
    /\ HasHistory(body)
    /\ Kept(body.history.v) # << >>
    /\ Kept(body.history.v)[1].sender # "user"

\* one single-shot call and no session
SingleShotOnly(r) ==
    /\ Len(r.ai) = 1
    /\ r.ai[1].fn = "generateContent"
    /\ \A i \in DOMAIN r.ai : r.ai[i].fn # "startChat"

\* C13 as stated: a chat request that reaches the gateway with a history whose
\* first entry is not from 'user' never calls startChat.
C13_Original ==
    (last.route = "chat" /\ last.ai # << >> /\ FirstNotUser(last.req.body))
        => SingleShotOnly(last)

\* C13: a chat request that reaches the gateway with a history in which the
\* first entry that has a sender and a text is not from 'user' never calls
\* startChat; its answer comes from one generateContent call.
C13_NoSessionUnlessUserFirst ==
    (last.route = "chat" /\ last.ai # << >> /\ FirstKeptNotUser(last.req.body))
        => /\ SingleShotOnly(last)
           /\ last.status = 200 => last.body.response = FinalOutcome(last).text

\* a history that starts with the model was answered by one single-shot call
C13_Witness ==
    /\ last.route = "chat"
    /\ last.ai # << >>
    /\ FirstKeptNotUser(last.req.body)
    /\ Len(last.req.body.history.v) = 2
    /\ last.status = 200
    /\ SingleShotOnly(last)

-----------------------------------------------------------------------------

\* the value that the first '{' or '[' of each text of the model starts, worked
\* out by hand: none in a text without a bracket or with an object cut short
ExpectedJson ==
    (Text.plain :> Null)
    @@ (Text.broken :> Null)
    @@ (Text.json :> [t |-> "json", text |-> << "{", "\"", "a", "\"", ":", "1", "}" >>])
    @@ (Text.fencedA :> [t |-> "json", text |-> << "{", "\"", "a", "\"", ":", "1", "}" >>])
    @@ (Text.fenced :> [t |-> "json", text |-> << "[", "1", ",", "2", "]" >>])
    @@ (Text.prose :>
           [t |-> "json",
            text |-> << "{", "\"", "a", "\"", ":", "[", "t", "r", "u", "e", "]", "}" >>])

\* C14: when expectJson is set and the gateway returns a text, the answer is a
\* 200 whose response is that text as returned and whose json is the value that
\* the longest parsing stretch from the first '{' or '[' of the text, fences
\* taken off, stands for: {"a":1} for a fenced json block around it, null when
\* no stretch parses.
C14_JsonExtraction ==
    (/\ last.route = "chat"
     /\ TruthyField(last.req.body, "expectJson")
     /\ Has(last.req, "gateway")
     /\ FinalOutcome(last).kind = "ok")
        => /\ last.status = 200
           /\ last.body.response = FinalOutcome(last).text
           /\ last.body.json = ExpectedJson[FinalOutcome(last).text]

\* the fenced block around {"a":1} gave {a: 1}
C14_Witness ==
    /\ last.route = "chat"
    /\ TruthyField(last.req.body, "expectJson")
    /\ last.status = 200
    /\ last.body.response = Text.fencedA
    /\ last.body.json = [t |-> "json", text |-> << "{", "\"", "a", "\"", ":", "1", "}" >>]

\* a text that holds no JSON gave null and came back as it was
C14_WitnessNull ==
    /\ last.route = "chat"
    /\ TruthyField(last.req.body, "expectJson")
    /\ last.status = 200
    /\ last.body.response = Text.broken
    /\ last.body.json = Null

-----------------------------------------------------------------------------

\* the profile section of the prompt of the first call of the gateway
PromptProfile(r) == r.ai[1].prompt.prompt.profile

C15_Step ==
    (/\ Served({ "chat" })
     /\ last'.ai # << >>
     /\ Genuine(last'.req.authorization, last'.at))
        => \A u \in users :
               u._id = last'.req.authorization.cred[1].userId =>
                   /\ PromptProfile(last') # Null
                   /\ PromptProfile(last') = ProfileAnalysis(u.profile)

\* C15: when a chat request that carries a genuine token of a user with a
\* stored profile reaches the gateway, the prompt holds the summary of that
\* profile, fields that are missing shown as 'Not specified'.
C15_ProfileInPrompt == [][C15_Step]_vars

-----------------------------------------------------------------------------

\* the attempt was made and gave a profile that holds an email
YieldsEmail(r) == r.kind = "ok" /\ Has(r.json, "email") /\ r.json.email # ""

\* a request with a token reached the two attempts
GoogleVerifying ==
    /\ Served({ "google" })
    /\ ~FalsyStr(last'.req.body, "token")
    /\ last'.req.fetch

C16_Step ==
    GoogleVerifying =>
        LET r1 == last'.req.userinfo
            r2 == last'.req.tokeninfo
        IN  /\ r1.kind # "not called"
            /\ r2.kind # "not called" <=> ~YieldsEmail(r1)
            /\ YieldsEmail(r1) =>
                   last'.status = 200 /\ last'.body.user.email = r1.json.email
            /\ (~YieldsEmail(r1) /\ YieldsEmail(r2)) =>
                   last'.status = 200 /\ last'.body.user.email = r2.json.email
            /\ (~YieldsEmail(r1) /\ ~YieldsEmail(r2)) =>
                   /\ last'.status = 400
                   /\ last'.body.error = "Unable to verify Google token"
                   /\ last'.body.details # "null"
                   /\ ~Has(last'.body, "token")
                   /\ users' = users
                   /\ wallet' = wallet

\* C16: a Google sign-in with a token asks userinfo first and tokeninfo next
\* when userinfo gave no profile with an email, accepts the first answer that
\* holds an email, and when neither does answers 400 with the last error,
\* creating no user and issuing no token.
C16_TwoAttempts == [][C16_Step]_vars

-----------------------------------------------------------------------------

\* the email of the profile that was accepted
VerifiedEmail(req) ==
    IF req.userinfo.kind = "ok" THEN req.userinfo.json.email ELSE req.tokeninfo.json.email

C17_Step ==
    (Served({ "google" }) /\ last'.status = 200) =>
        LET e == VerifiedEmail(last'.req)
            before == { u \in users : u.email = e }
            after == { u \in users' : u.email = e }
        IN  /\ Cardinality(after) = 1
            /\ before # {} => users' = users /\ plainOf' = plainOf
            /\ before = {} =>
                   \E n \in users' :
                       /\ users' = users \cup { n }
                       /\ n \notin users
                       /\ n.email = e
                       /\ plainOf'[n._id] \in RandomStrings
                       /\ n.password # plainOf'[n._id]
                       /\ bcryptCompare(plainOf'[n._id], n.password)
            /\ DOMAIN last'.body = { "message", "user", "token" }
            /\ ~Has(last'.body.user, "password")
            /\ \A u \in after :
                   /\ last'.body.token.userId = u._id
                   /\ last'.body.user._id = u._id
                   /\ last'.body.user.email = e

\* C17: a verified Google sign-in for e creates a record, with the hash of a
\* random password that no response shows, only when there is none for e, and
\* leaves the record alone when there is one; both ways it answers 200 with a
\* token for the id of that record, and exactly one record for e exists.
C17_OneRecordPerEmail == [][C17_Step]_vars

\* a second Google sign-in for an email found the record the first one made
C17_Witness ==
    /\ last.route = "google"
    /\ last.status = 200
    /\ last.db = << "findOne" >>
    /\ last.body.user.email = "gina@example.com"
    /\ Cardinality({ u \in users : u.email = "gina@example.com" }) = 1

-----------------------------------------------------------------------------

\* the fields that a complete profile needs
TextFields == { "educationLevel", "fieldOfStudy", "institution", "currentStatus", "careerGoals" }

ListFields == { "skills", "interests" }

\* the field is there and is not empty: a list with an entry, a string with a
\* character, any other value that is not false or zero
NonEmptyField(p, k) ==
    /\ Has(p, k)
    /\ CASE p[k].t = "array" -> p[k].v # << >>
         [] p[k].t = "string" -> p[k].v # ""
         [] OTHER -> Truthy(p[k])

CompleteAsClaimed(p) == \A k \in TextFields \cup ListFields : NonEmptyField(p, k)

\* every field that completeness looks at has the type the schema gives it
WellTyped(payload) ==
    /\ \A k \in DOMAIN payload \cap TextFields : payload[k].t = "string"
    /\ \A k \in DOMAIN payload \cap ListFields : payload[k].t = "array"

\* the update wrote the allow-listed fields of the payload to the record and
\* nothing else, and set profileComplete from them
ProfileWritten(payload, before, after) ==
    /\ DOMAIN after = DOMAIN before
    /\ \A k \in DOMAIN before \ { "profile", "profileComplete" } : after[k] = before[k]
    /\ DOMAIN after.profile \subseteq allowedFields
    /\ DOMAIN after.profile \subseteq DOMAIN payload \cup ListFields
    /\ \A k \in DOMAIN payload \cap allowedFields :
           /\ Has(after.profile, k)
           \* as sent, unless the schema had to cast it
           /\ (payload[k].t # "number" /\ (k \in ListFields => payload[k].t = "array"))
                  => after.profile[k] = payload[k]
    /\ after.profileComplete <=> CompleteAsClaimed(payload)

\* the record of the caller before and after a profile update that was served
ProfileUpdated(P(_, _, _)) ==
    (Served({ "postProfile" }) /\ last'.status = 200) =>
        \E before \in users, after \in users' :
            /\ before._id = last'.req.authorization.cred[1].userId
            /\ after._id = before._id
            /\ users' = (users \ { before }) \cup { after }
            /\ P(last'.req.body, before, after)

C18_OriginalHolds(payload, before, after) ==
    /\ ProfileWritten(payload, before, after)
    /\ after.profileComplete <=> CompleteAsClaimed(after.profile)

\* C18 as stated: a profile update writes only the allow-listed fields, sets
\* profileComplete exactly when the seven fields are non-empty, and the stored
\* profileComplete equals that predicate on the stored profile.
C18_Original == [][ProfileUpdated(C18_OriginalHolds)]_vars

C18_Holds(payload, before, after) ==
    /\ ProfileWritten(payload, before, after)
    /\ WellTyped(payload) => (after.profileComplete <=> CompleteAsClaimed(after.profile))

\* C18: a profile update writes only the allow-listed fields of the body (a
\* role, an email or a password in the body changes nothing in the record) and
\* sets profileComplete exactly when the seven fields of the body are
\* non-empty; the stored profileComplete equals that predicate on the stored
\* profile whenever the fields were sent with the types of the schema.
C18_AllowListedProfile == [][ProfileUpdated(C18_Holds)]_vars

\* a complete profile sent with a role and a password was stored without them
C18_Witness ==
    /\ last.route = "postProfile"
    /\ last.status = 200
    /\ Has(last.req.body, "role")
    /\ Has(last.req.body, "password")
    /\ \E u \in users :
           /\ u._id = last.req.authorization.cred[1].userId
           /\ u.profileComplete
           /\ ~Has(u, "role")
           /\ ~Has(u.profile, "role")
           /\ bcryptCompare(Secret6, u.password)

-----------------------------------------------------------------------------

C19_Step ==
    (/\ Served({ "adminDeleteUser" })
     /\ Genuine(last'.req.authorization, last'.at)
     /\ last'.req.id = last'.req.authorization.cred[1].userId
     /\ \E u \in users : u._id = last'.req.id)
        => /\ last'.status = 400
           /\ \E u \in users' : u._id = last'.req.id

\* C19: a DELETE of /api/admin/users/:id in which :id is the id of the caller
\* is answered 400, never 200, and the record of the caller stays in the store.
C19_NoSelfDelete == [][C19_Step]_vars

-----------------------------------------------------------------------------

\* the lastLogin of a record as a read gives it: undefined when it was never set
LastLoginOf(u) == IF Has(u, "lastLogin") THEN << u.lastLogin >> ELSE << >>

C20_Step ==
    (Served({ "login" }) /\ last'.status = 200) =>
        \A u \in users :
            u.email = last'.req.email =>
                \E v \in users' : v._id = u._id /\ LastLoginOf(v) # LastLoginOf(u)

\* C20: a login that succeeds changes the lastLogin of the stored user: the
\* value read after the login differs from the value read before it.
C20_LoginSetsLastLogin == [][C20_Step]_vars

-----------------------------------------------------------------------------
(* C21 *)

SampleEmails == { u.email : u \in SampleUsers(0, << >>, 0) }

\* the seeding that has counted the collections as r writes in this step
SeedStep(r) ==
    /\ r \in inflight
    /\ r.op = "seed"
    /\ r \notin inflight'
    /\ phase' = "listening"

\* a sample email is held by a record when the seeding writes
SampleEmailTaken == \E u \in users : u.email \in SampleEmails

SeededUsers ==
    /\ Cardinality(users' \ users) = 3
    /\ { u.email : u \in users' \ users } = SampleEmails
    /\ users \subseteq users'

Seeded(before, after) == before \subseteq after /\ Cardinality(after \ before) = 3

C21_Step ==
    \A r \in inflight :
        SeedStep(r) =>
            LET rejected == r.userCount = 0 /\ SampleEmailTaken
            IN  /\ r.userCount = 0 /\ ~rejected => SeededUsers
                /\ r.userCount # 0 => users' = users
                /\ r.companyCount = 0 /\ ~rejected => Seeded(companies, companies')
                /\ r.companyCount # 0 \/ rejected => companies' = companies
                /\ r.jobCount = 0 /\ ~rejected => Seeded(jobs, jobs')
                /\ r.jobCount # 0 \/ rejected => jobs' = jobs
                /\ rejected => /\ users \subseteq users'
                               /\ \A u \in users' \ users : u.email \in SampleEmails

SeedingDue == phase = "listening" /\ (seedPending \/ \E r \in inflight : r.op = "seed")

-----------------------------------------------------------------------------
(* C22 *)

HeldBy(email, coll) == { u \in coll : u.email = email }

\* the request r, past its existence check, saves in this step
SaveStep(r, op) ==
    /\ r \in inflight
    /\ r.op = op
    /\ r \notin inflight'
    /\ phase' = "listening"

C22_Step ==
    \A r \in inflight :
        SaveStep(r, "signup") =>
            IF HeldBy(r.body.email, users) = {}
            THEN /\ last'.status = 201
                 /\ Cardinality(HeldBy(r.body.email, users')) = 1
                 /\ Cardinality(users' \ users) = 1
            ELSE /\ last'.status # 201
                 /\ users' = users

\* C22: in every reachable state, however signups, Google sign-ins and the
\* seeding interleave, no two user records hold the same email; and a signup
\* that has passed the existence check saves its record exactly when no record
\* holds its email at the save, so of two that passed the check for the same
\* email exactly one is saved
C22_OneRecordPerEmailInterleaved ==
    /\ [](\A u, v \in users : u.email = v.email => u = v)
    /\ [][C22_Step]_vars

\* two signups for one email passed the check; one was saved and the other
\* has just been refused
C22_Witness ==
    /\ last.route = "signup"
    /\ last.status = 500
    /\ Cardinality(HeldBy(last.req.email, users)) = 1
    /\ last.req.email \in signedUp

-----------------------------------------------------------------------------
(* C28 *)

C28_Step ==
    \A r \in inflight :
        /\ SaveStep(r, "signup") /\ HeldBy(r.body.email, users) # {}
              => /\ last'.route = "signup"
                 /\ last'.status = 500
                 /\ last'.body = [error |-> "Server error during signup"]
                 /\ wallet' = wallet
        /\ SaveStep(r, "google") /\ HeldBy(r.userinfo.json.email, users) # {}
              => /\ last'.route = "google"
                 /\ last'.status = 500
                 /\ last'.body = [error |-> "Server error during Google auth"]
                 /\ wallet' = wallet

\* C28: a signup that passed the existence check and whose save the unique
\* index rejects answers 500 {error: 'Server error during signup'}, not 400, and
\* gets no token; a first-time Google sign-in that loses the same race answers
\* 500 {error: 'Server error during Google auth'}
C28_LoserAnswers500 == [][C28_Step]_vars

\* two first-time Google sign-ins of one account interleaved: the second save
\* has just been refused
C28_Witness ==
    /\ last.route = "google"
    /\ last.status = 500
    /\ last.body = [error |-> "Server error during Google auth"]
    /\ last.req.userinfo.json.email \notin signedUp \cup SampleEmails
    /\ HeldBy(last.req.userinfo.json.email, users) # {}

-----------------------------------------------------------------------------
(* C23 *)

SessionTried(r) == r.ai # << >> /\ r.ai[1].fn = "startChat"

\* C23: a chat request makes at most two gateway calls.  When the session
\* (startChat / sendMessage) was tried and did not fail, it is the only call.
\* When it failed, exactly one single-shot call follows it, with the prompt
\* the session was sent and without a history; the request answers 200 when
\* that call succeeds and 500 when it fails, with no further call.  A
\* single-shot call is second only behind a session that failed.
C23_FallbackOnce ==
    last.route = "chat" /\ last.ai # << >> =>
        /\ Len(last.ai) <= 2
        /\ Len(last.ai) = Len(last.req.gateway)
        /\ \A i \in 2..Len(last.ai) : last.ai[i].fn = "generateContent" /\ SessionTried(last)
        /\ SessionTried(last) =>
              IF last.req.gateway[1].kind = "throw"
              THEN /\ Len(last.ai) = 2
                   /\ last.ai[2] = [fn |-> "generateContent", model |-> GEMINI_MODEL,
                                    prompt |-> last.ai[1].prompt]
                   /\ last.ai[2].prompt = fullPrompt(last.req.body, Null)
                   /\ last.req.gateway[2].kind = "ok" =>
                         last.status = 200 /\ last.body.response = last.req.gateway[2].text
                   /\ last.req.gateway[2].kind = "throw" => last.status = 500
              ELSE /\ Len(last.ai) = 1
                   /\ last.status = 200

\* the session threw and the single-shot call behind it answered
C23_Witness ==
    /\ last.route = "chat"
    /\ Len(last.ai) = 2
    /\ last.req.gateway[1].kind = "throw"
    /\ last.req.gateway[2].kind = "ok"
    /\ last.status = 200

-----------------------------------------------------------------------------
(* C24 *)

\* the entries that have a sender and a text, in their order, as turns
ExpectedTurns(h) ==
    [i \in 1..Len(Kept(h)) |->
        [role |-> IF Kept(h)[i].sender = "user" THEN "user" ELSE "model",
         parts |-> << [text |-> Kept(h)[i].text] >>]]

BeginsWithUser(turns) == turns # << >> /\ turns[1].role = "user"

\* the answer comes from one single-shot call with the composed prompt
Bypassed(r) ==
    /\ SingleShotOnly(r)
    /\ r.ai[1] = [fn |-> "generateContent", model |-> GEMINI_MODEL,
                  prompt |-> fullPrompt(r.req.body, Null)]
    /\ r.status = 200 => r.body.response = FinalOutcome(r).text

HistoryReachedGateway(r) == r.route = "chat" /\ r.ai # << >> /\ HasHistory(r.req.body)

\* C24 as stated: the session is bypassed whenever the kept turns do not begin
\* with a 'user' turn, the case of no kept turn included
C24_Original ==
    HistoryReachedGateway(last) =>
        /\ SessionTried(last) => last.ai[1].history = ExpectedTurns(last.req.body.history.v)
        /\ ~BeginsWithUser(ExpectedTurns(last.req.body.history.v)) => Bypassed(last)

\* C24, amended: with a non-empty history array, the entries lacking a sender or
\* a text are dropped, the others keep their order and become 'user' turns
\* when the sender is 'user' and 'model' turns otherwise; if at least one entry
\* is kept and the first kept turn is not a 'user' turn, the session is
\* bypassed and the answer comes from one single-shot call with the composed
\* prompt; with no entry kept the session is started on an empty history
C24_HistoryTurns ==
    HistoryReachedGateway(last) =>
        LET turns == ExpectedTurns(last.req.body.history.v)
        IN  /\ SessionTried(last) => last.ai[1].history = turns
            /\ turns # << >> /\ ~BeginsWithUser(turns) => Bypassed(last)
            /\ turns = << >> \/ BeginsWithUser(turns) => SessionTried(last)

\* a history of a model turn followed by a user turn was answered without a session
C24_Witness ==
    /\ HistoryReachedGateway(last)
    /\ Len(ExpectedTurns(last.req.body.history.v)) = 2
    /\ ~BeginsWithUser(ExpectedTurns(last.req.body.history.v))
    /\ Bypassed(last)
    /\ last.status = 200

-----------------------------------------------------------------------------
(* C25 *)

\* the characters of k stand in s one after the other from some position on
Occurs(k, s) == \E i \in 0..(Len(s) - Len(k)) : \A j \in 1..Len(k) : s[i + j] = k[j]

OccursSome(list, s) == \E n \in DOMAIN list : Occurs(list[n], s)

\* what the claim says of a message, worked on its lower-cased characters
ClaimedCareerRelated(body) ==
    /\ Has(body, "message")
    /\ body.message.t = "string"
    /\ body.message.v # << >>
    /\ LET lower == toLowerCase(body.message.v)
           interrogative ==
               << << "w", "h", "a", "t" >>, << "h", "o", "w" >>, << "w", "h", "e", "r", "e" >>,
                  << "w", "h", "e", "n" >>, << "w", "h", "y" >>, << "w", "h", "i", "c", "h" >>,
                  << "w", "h", "o" >> >>
           verbs ==
               << << "s", "t", "u", "d", "y" >>, << "l", "e", "a", "r", "n" >>,
                  << "b", "e", "c", "o", "m", "e" >>, << "g", "e", "t" >>,
                  << "f", "i", "n", "d" >>, << "c", "h", "o", "o", "s", "e" >>,
                  << "d", "e", "c", "i", "d", "e" >>, << "s", "t", "a", "r", "t" >> >>
       IN  \/ OccursSome(careerKeywords, lower)
           \/ OccursSome(careerPhrases, lower)
           \/ OccursSome(interrogative, lower) /\ OccursSome(verbs, lower)

\* the messages of the model that are career-related, worked by hand: 'Career
\* tips' holds the keyword 'career', 'HOW DO I BECOME A CHEF' the phrase 'how
\* do i', 'where to start' an interrogative and 'start' and neither keyword nor
\* phrase, 'three' the keyword 'hr'
RelatedByHand == { Message.career, Message.chef, Message.start, Message.three }

\* C25: for the message of every chat request served, checkIfCareerRelated is
\* true exactly when the lower-cased message holds a career keyword, or a
\* career phrase, or an interrogative together with a work-context verb; it
\* is false for the empty and for the non-string message; requests with the
\* same message get the same result; and the request is answered with the
\* fixed redirect exactly when the result is false and no JSON is expected
C25_CareerRelatedExactly ==
    last.route = "chat" =>
        LET body == last.req.body
        IN  /\ checkIfCareerRelated(body) = ClaimedCareerRelated(body)
            /\ checkIfCareerRelated(body) =
                   (/\ Has(body, "message") /\ body.message.t = "string"
                    /\ body.message.v \in RelatedByHand)
            /\ \A other \in ChatBodies :
                   (Has(other, "message") /\ Has(body, "message")
                        /\ other.message = body.message)
                       => checkIfCareerRelated(other) = checkIfCareerRelated(body)
            /\ last.req.key =>
                   ((last.status = 200 /\ last.body.response = RedirectMessage /\ last.ai = << >>)
                        <=> (~ClaimedCareerRelated(body) /\ ~TruthyField(body, "expectJson")))

\* 'where to start', related by its interrogative and its verb alone, reached the gateway
C25_Witness ==
    /\ last.route = "chat"
    /\ last.req.key
    /\ Has(last.req.body, "message")
    /\ last.req.body.message = Str(Message.start)
    /\ last.ai # << >>
    /\ last.status = 200

-----------------------------------------------------------------------------
(* C26 *)

\* the message the claim assigns to the exception e: the first of 'API_KEY',
\* 'quota', 'model' that its text holds decides, and none gives the generic one
ClaimedError(e) ==
    LET text == IF Has(e, "message") THEN e.message ELSE << >>
    IN  IF Occurs(<< "A", "P", "I", "_", "K", "E", "Y" >>, text)
        THEN "Invalid API key. Please check your Gemini API key configuration."
        ELSE IF Occurs(<< "q", "u", "o", "t", "a" >>, text)
        THEN "API quota exceeded. Please try again later."
        ELSE IF Occurs(<< "m", "o", "d", "e", "l" >>, text)
        THEN "Invalid model specified. Please check the model configuration."
        ELSE "Failed to get response from AI. Check server logs."

\* the last call the request made to the gateway threw
GatewayThrew(r) == r.route = "chat" /\ r.ai # << >> /\ FinalOutcome(r).kind = "throw"

\* C26: a chat request whose last gateway call threw (an exception the history
\* fallback did not absorb) answers 500 with a body that holds the one field
\* error, whose message is decided by the first of 'API_KEY', 'quota', 'model'
\* found in the exception text and is the generic message when none is found
\* or the exception has no text; the exception text is not in the body
C26_ErrorByFirstMatch ==
    GatewayThrew(last) =>
        /\ last.status = 500
        /\ DOMAIN last.body = { "error" }
        /\ last.body.error = ClaimedError(FinalOutcome(last))
        /\ last.body.error \in
               { "Invalid API key. Please check your Gemini API key configuration.",
                 "API quota exceeded. Please try again later.",
                 "Invalid model specified. Please check the model configuration.",
                 "Failed to get response from AI. Check server logs." }

\* an exception whose text holds 'model', 'quota' and 'API_KEY', in this order,
\* was answered with the message for the API key
C26_Witness ==
    /\ GatewayThrew(last)
    /\ FinalOutcome(last) = GatewayThrows(ErrorText.all)
    /\ last.status = 500
    /\ last.body = [error |-> "Invalid API key. Please check your Gemini API key configuration."]

-----------------------------------------------------------------------------
(* C27 *)

\* the connection string is missing, empty or made of white space only
Blank(uri) == ~uri.set \/ \A i \in 1..Len(uri.v) : uri.v[i] \in { " ", "\t", "\n" }

C27_Step ==
    \* listening begins from a connection that succeeded, and with it the seeding
    /\ phase' = "listening" /\ phase # "listening"
          => phase = "connecting" /\ ~Blank(mongoUri) /\ seedPending' /\ ~seedPending
    /\ seedPending' /\ ~seedPending => phase = "connecting" /\ phase' = "listening"
    \* a process that is not listening serves nothing and writes nothing
    /\ phase # "listening" => last' = last /\ store' = store
    \* a request served, whatever its status, leaves the process listening
    /\ phase = "listening" /\ last' # last => phase' = "listening"
    \* the process that has exited stays so until it is run again
    /\ phase = "exited" /\ phase' # "exited" => inflight' = {} /\ ~seedPending'

\* C27: the process has exited whenever its connection string is missing or
\* blank, and exits when the connection fails; it starts listening, and
\* schedules the seeding, only in the step in which the connection succeeds;
\* once it listens, no request, answered 500 or otherwise, ends it
C27_StartupAndHandlers ==
    /\ [](Blank(mongoUri) => phase = "exited")
    /\ [](seedPending \/ inflight # {} => phase = "listening")
    /\ [][C27_Step]_vars

\* a handler has caught an error and answered 500, and the process listens
C27_Witness ==
    /\ phase = "listening"
    /\ ~Blank(mongoUri)
    /\ last.status = 500

-----------------------------------------------------------------------------
(* C29 *)

\* the update replaced the profile by the allow-listed fields of the payload:
\* a field the record held and the payload omits is gone (skills and interests,
\* which the schema reads back as lists, are empty), profileComplete follows
\* from the payload, and the rest of the record is as it was
C29_Holds(payload, before, after) ==
    /\ DOMAIN after.profile = (DOMAIN payload \cap allowedFields) \cup ListFields
    /\ \A k \in DOMAIN before.profile \ DOMAIN payload :
           IF k \in ListFields THEN after.profile[k] = Arr(<< >>)
           ELSE ~Has(after.profile, k)
    /\ (\E k \in TextFields \cup ListFields : ~Has(payload, k)) => ~after.profileComplete
    /\ after.profileComplete <=> CompleteAsClaimed(payload)
    /\ \A k \in { "_id", "name", "email", "password", "createdAt" } : after[k] = before[k]
    /\ DOMAIN after = DOMAIN before

\* C29: a served POST /api/user/profile replaces the whole profile of the
\* caller with the allow-listed fields of the request: a field stored earlier
\* and omitted now is gone afterwards, profileComplete is computed from the
\* request alone, so a partial update of a complete profile resets it to
\* false; name, email, password and createdAt of the record, and the records of
\* the other users, are unchanged
C29_ProfileReplaced == [][ProfileUpdated(C29_Holds)]_vars

\* after an update with educationLevel and willingToRelocate alone, the record
\* holds no other text field and is not complete
C29_Witness ==
    /\ last.route = "postProfile"
    /\ last.status = 200
    /\ DOMAIN last.req.body = { "educationLevel", "willingToRelocate" }
    /\ \E u \in users :
           /\ u._id = last.req.authorization.cred[1].userId
           /\ DOMAIN u.profile = { "educationLevel", "willingToRelocate" } \cup ListFields
           /\ u.profile.skills = Arr(<< >>)
           /\ ~u.profileComplete
    /\ Cardinality(users) > 1

-----------------------------------------------------------------------------
(* C30 *)

\* the sample accounts tried with the sample password and with another one,
\* while a client may take one of their emails first, the clock advances and
\* the collections may be emptied
SpecSeedLogin ==
    Init /\ [][
        \/ Boot
        \/ Tick
        \/ Signup([name |-> "Ann", email |-> "john@example.com", password |-> Secret6])
        \/ \E e \in SampleEmails, pw \in { Password123, Secret6 } :
               Login([email |-> e, password |-> pw])
        \/ \E hdr \in Headers : Me(hdr)
        \/ ClearCollections
    ]_vars

\* the records the seeding created, as it created them
SeededRecords ==
    { u \in users :
        /\ u._id \in DOMAIN plainOf
        /\ plainOf[u._id] = Password123
        /\ \E sample \in SampleUsers(u._id - 1, u.password, u.createdAt) :
               sample.email = u.email /\ sample.name = u.name /\ sample.password = u.password }

C30_Step ==
    \A u \in SeededRecords :
        (/\ Served({ "login" })
         /\ last'.req = [email |-> u.email, password |-> Password123])
            => /\ last'.status = 200
               /\ Has(last'.body, "token")
               /\ authMiddleware(Header(BearerSp, << last'.body.token >>), now').ok
               /\ authMiddleware(Header(BearerSp, << last'.body.token >>), now').user.userId = u._id
               /\ wallet' = << last'.body.token >>

\* C30: while the record the seeding created for john@example.com,
\* jane@example.com or bob@example.com is in the store as it was created, a
\* login with that email and the password 'password123' answers 200 with a
\* token that the auth middleware accepts as that user's
C30_SeededLogin == [][C30_Step]_vars

\* jane@example.com, seeded, has logged in with password123 and holds the token
C30_Witness ==
    /\ last.route = "login"
    /\ last.status = 200
    /\ last.req = [email |-> "jane@example.com", password |-> Password123]
    /\ \E u \in SeededRecords : u.email = "jane@example.com"
    /\ wallet = << last.body.token >>
    /\ authMiddleware(Header(BearerSp, wallet), now).ok

====
